---- MODULE Spec2Model ----
(***************************************************************************)
(* A model of the mcp-auth-proxy request handler (package proxy, package   *)
(* auth): Proxy.ServeHTTP with its three handling paths, the forwarding    *)
(* engine, the signer and the header utilities.                            *)
(*                                                                         *)
(* Go strings that the code takes apart or puts together (paths, header    *)
(* values, keys, timestamps) are sequences of tokens; a token stands for a *)
(* fixed run of characters and no token is a prefix of another, so         *)
(* concatenation, prefix and suffix tests behave as on the characters.     *)
(* Byte strings (bodies) are run-length encoded: a sequence of runs        *)
(* [b |-> byte, n |-> count], so that a body longer than 64 KiB is a value *)
(* the model can hold.                                                     *)
(***************************************************************************)
EXTENDS Integers, Sequences, FiniteSets, TLC

(***************************************************************************)
(* Strings                                                                 *)
(***************************************************************************)

\* strings.HasPrefix
HasPrefix(s, prefix) ==
    /\ Len(prefix) <= Len(s)
    /\ SubSeq(s, 1, Len(prefix)) = prefix

\* strings.HasSuffix
HasSuffix(s, suffix) ==
    /\ Len(suffix) <= Len(s)
    /\ SubSeq(s, Len(s) - Len(suffix) + 1, Len(s)) = suffix

\* strings.TrimSuffix: removes the suffix once, when it is there.
TrimSuffix(s, suffix) ==
    IF HasSuffix(s, suffix) THEN SubSeq(s, 1, Len(s) - Len(suffix)) ELSE s

(***************************************************************************)
(* Byte strings, run-length encoded                                        *)
(***************************************************************************)

\* The number of bytes of a byte string.
RECURSIVE BLen(_)
BLen(bs) == IF bs = <<>> THEN 0 ELSE bs[1].n + BLen(Tail(bs))

\* Concatenation; the result is again in normal form (no empty run, no two
\* neighbouring runs of the same byte).
Concat(a, b) ==
    IF a = <<>> THEN b
    ELSE IF b = <<>> THEN a
    ELSE IF a[Len(a)].b = b[1].b
         THEN SubSeq(a, 1, Len(a) - 1)
              \o <<[b |-> b[1].b, n |-> a[Len(a)].n + b[1].n]>>
              \o Tail(b)
         ELSE a \o b

\* The bytes of a text, one character per element: a run starts at every
\* character that differs from the one before it.
Bytes(chars) ==
    LET starts == {i \in 1..Len(chars) : i = 1 \/ chars[i] # chars[i - 1]}
        start(k) == CHOOSE i \in starts :
                        Cardinality({j \in starts : j <= i}) = k
        end(k) == IF k = Cardinality(starts) THEN Len(chars) + 1
                  ELSE start(k + 1)
    IN [k \in 1..Cardinality(starts) |->
           [b |-> chars[start(k)], n |-> end(k) - start(k)]]

\* The first k bytes of a byte string (all of it when it is shorter): what
\* io.ReadAll(io.LimitReader(r, k)) returns.
RECURSIVE LimitRead(_, _)
LimitRead(bs, k) ==
    IF bs = <<>> \/ k <= 0 THEN <<>>
    ELSE IF bs[1].n <= k
         THEN Concat(<<bs[1]>>, LimitRead(Tail(bs), k - bs[1].n))
         ELSE <<[b |-> bs[1].b, n |-> k]>>

(***************************************************************************)
(* http.Header                                                             *)
(***************************************************************************)

\* textproto.CanonicalMIMEHeaderKey on the header names of the model: the
\* first letter and every letter after a hyphen in upper case, the rest in
\* lower case.
CanonicalKey(k) ==
    CASE k = "connection" -> "Connection"
      [] k = "CONNECTION" -> "Connection"
      [] k = "TE" -> "Te"
      [] k = "te" -> "Te"
      [] k = "keep-alive" -> "Keep-Alive"
      [] k = "transfer-encoding" -> "Transfer-Encoding"
      [] k = "upgrade" -> "Upgrade"
      [] k = "x-session-id" -> "X-Session-Id"
      [] k = "x-api-key-id" -> "X-Api-Key-Id"
      [] k = "x-signature" -> "X-Signature"
      [] k = "x-timestamp" -> "X-Timestamp"
      [] k = "content-type" -> "Content-Type"
      [] k = "set-cookie" -> "Set-Cookie"
      [] OTHER -> k

\* An empty header map.
NoHeader == <<>>

\* Header.Add: appends the value to the values of the canonical key.
HeaderAdd(h, k, v) ==
    LET c == CanonicalKey(k) IN
    [x \in DOMAIN h \cup {c} |->
        IF x = c THEN (IF c \in DOMAIN h THEN Append(h[c], v) ELSE <<v>>)
        ELSE h[x]]

\* Header.Set: replaces the values of the canonical key by the one value.
HeaderSet(h, k, v) ==
    LET c == CanonicalKey(k) IN
    [x \in DOMAIN h \cup {c} |-> IF x = c THEN <<v>> ELSE h[x]]

\* Header.Del: removes the canonical key.
HeaderDel(h, k) ==
    LET c == CanonicalKey(k) IN [x \in DOMAIN h \ {c} |-> h[x]]

\* Header.Get: the first value of the canonical key, "" when there is none.
HeaderGet(h, k) ==
    LET c == CanonicalKey(k) IN
    IF c \in DOMAIN h /\ h[c] # <<>> THEN h[c][1] ELSE <<>>

\* The header map net/http builds from the header lines on the wire: one
\* Add per line, in order, under the canonical key.
RECURSIVE FromWire(_)
FromWire(lines) ==
    IF lines = <<>> THEN NoHeader
    ELSE LET rest == FromWire(SubSeq(lines, 1, Len(lines) - 1))
             last == lines[Len(lines)]
         IN HeaderAdd(rest, last[1], last[2])

(***************************************************************************)
(* Header utilities of package proxy                                       *)
(***************************************************************************)

\* The hop-by-hop header names, as the keys of the hopHeaders map.
hopHeaders ==
    {"Connection", "Proxy-Connection", "Keep-Alive", "Proxy-Authenticate",
     "Proxy-Authorization", "Te", "Trailer", "Transfer-Encoding", "Upgrade"}

\* copyHeaders appends all headers from src into dst: under every key of
\* src (canonical, as net/http built the map) the values of src follow the
\* values dst has already, in their order; no value of dst is replaced.
copyHeaders(dst, src) ==
    [x \in DOMAIN dst \cup DOMAIN src |->
        (IF x \in DOMAIN dst THEN dst[x] ELSE <<>>)
        \o (IF x \in DOMAIN src THEN src[x] ELSE <<>>)]

\* cleanHopHeaders removes the hop-by-hop headers: one Del for every key
\* of hopHeaders.
cleanHopHeaders(h) == [x \in DOMAIN h \ hopHeaders |-> h[x]]

\* net.SplitHostPort on an address "host:port", held as <<host, ":", port>>.
SplitHostPort(addr) ==
    IF Len(addr) = 3 /\ addr[2] = ":"
    THEN [ok |-> TRUE, host |-> <<addr[1]>>]
    ELSE [ok |-> FALSE, host |-> <<>>]

\* augmentForwardHeaders sets the X-Forwarded-* headers of the outbound
\* request from the inbound request r.
augmentForwardHeaders(h, r) ==
    LET split == SplitHostPort(r.remoteAddr)
        prior == HeaderGet(r.header, "X-Forwarded-For")
        clientIP == IF prior # <<>> THEN prior \o <<", ">> \o split.host
                    ELSE split.host
        h1 == IF split.ok THEN HeaderSet(h, "X-Forwarded-For", clientIP) ELSE h
        scheme == HeaderGet(r.header, "X-Forwarded-Proto")
        h2 == IF scheme # <<>> THEN HeaderSet(h1, "X-Forwarded-Proto", scheme)
              ELSE HeaderSet(h1, "X-Forwarded-Proto", <<"http">>)
    IN HeaderSet(h2, "X-Forwarded-Host", r.host)

\* copyResponseHeaders as it would be with Set for Add: the last value of
\* a name replaces the ones before it.
copyResponseHeadersSet(dst, src) ==
    [x \in DOMAIN dst \cup DOMAIN src |->
        IF x \in DOMAIN src /\ src[x] # <<>>
        THEN <<src[x][Len(src[x])]>>
        ELSE IF x \in DOMAIN dst THEN dst[x] ELSE <<>>]

\* copyResponseHeaders mirrors the upstream response headers to the writer.
copyResponseHeaders(dst, src) ==
    [x \in DOMAIN dst \cup DOMAIN src |->
        (IF x \in DOMAIN dst THEN dst[x] ELSE <<>>)
        \o (IF x \in DOMAIN src THEN src[x] ELSE <<>>)]

(***************************************************************************)
(* Paths                                                                   *)
(***************************************************************************)

\* "/mcp"
McpPath == <<"/", "mcp">>

\* "/.well-known/oauth-authorization-server"
DiscoveryPrefix == <<"/", ".well-known", "/", "oauth-authorization-server">>

\* strings.TrimRight(s, "/"): removes every trailing slash.
RECURSIVE TrimRightSlash(_)
TrimRightSlash(s) ==
    IF HasSuffix(s, <<"/">>) THEN TrimRightSlash(SubSeq(s, 1, Len(s) - 1)) ELSE s

\* isEventStreamPath as it would be with TrimRight for TrimSuffix.
isEventStreamPathTrimAll(path) ==
    LET trimmed == TrimRightSlash(path) IN
    IF trimmed = <<>> THEN FALSE ELSE trimmed = McpPath

\* isEventStreamPath checks for the canonical MCP GET endpoint used for SSE.
isEventStreamPath(path) ==
    LET trimmed == TrimSuffix(path, <<"/">>) IN
    IF trimmed = <<>> THEN FALSE ELSE trimmed = McpPath

\* isDiscoveryPath as it would be with an exact match for HasPrefix.
isDiscoveryPathExact(path) == path = DiscoveryPrefix

\* isDiscoveryPath identifies well-known OAuth discovery URL probes.
isDiscoveryPath(path) == HasPrefix(path, DiscoveryPrefix)

\* The segments of a path between its slashes (strings.Cut at every "/").
RECURSIVE SplitSlash(_)
SplitSlash(s) ==
    IF \A i \in DOMAIN s : s[i] # "/" THEN <<s>>
    ELSE LET i == CHOOSE j \in DOMAIN s :
                    s[j] = "/" /\ \A k \in 1..(j - 1) : s[k] # "/"
         IN <<SubSeq(s, 1, i - 1)>> \o SplitSlash(SubSeq(s, i + 1, Len(s)))

\* strings.LastIndex(s, "/"), counted from 1; 0 when there is no slash.
LastSlash(s) ==
    IF \A i \in DOMAIN s : s[i] # "/" THEN 0
    ELSE CHOOSE j \in DOMAIN s :
            s[j] = "/" /\ \A k \in (j + 1)..Len(s) : s[k] # "/"

\* The loop of url.resolvePath over the segments still to do: "." is
\* dropped, ".." removes the last segment written, any other segment is
\* written after a slash.
RECURSIVE RemoveDotSegments(_, _, _)
RemoveDotSegments(elems, dst, first) ==
    IF elems = <<>> THEN dst
    ELSE LET elem == elems[1] IN
         IF elem = <<".">>
         THEN RemoveDotSegments(Tail(elems), dst, FALSE)
         ELSE IF elem = <<"..">>
         THEN LET str == Tail(dst)
                  index == LastSlash(str)
              IN IF index = 0
                 THEN RemoveDotSegments(Tail(elems), <<"/">>, TRUE)
                 ELSE RemoveDotSegments(Tail(elems),
                          <<"/">> \o SubSeq(str, 1, index - 1), first)
         ELSE RemoveDotSegments(Tail(elems),
                  dst \o (IF first THEN <<>> ELSE <<"/">>) \o elem, FALSE)

\* url.resolvePath: the reference path against the base path, with the dot
\* segments removed (RFC 3986, 5.2).
resolvePath(base, ref) ==
    LET full == IF ref = <<>> THEN base
                ELSE IF ref[1] # "/"
                     THEN SubSeq(base, 1, LastSlash(base)) \o ref
                     ELSE ref
        elems == SplitSlash(full)
        last == elems[Len(elems)]
        dst == RemoveDotSegments(elems, <<"/">>, TRUE)
        r == IF last = <<".">> \/ last = <<"..">> THEN dst \o <<"/">> ELSE dst
    IN IF full = <<>> THEN <<>>
       ELSE IF Len(r) > 1 /\ r[2] = "/" THEN Tail(r) ELSE r

\* singleJoiningURL as it would be if the inbound path were appended to
\* the path of the base.
singleJoiningURLAppend(base, requestURL) ==
    [scheme |-> base.scheme,
     host   |-> base.host,
     path   |-> base.path \o requestURL.path,
     query  |-> requestURL.query]

\* singleJoiningURL: the base URL's ResolveReference of a reference that
\* has the inbound path and query and no scheme or host: the base's scheme
\* and host, the inbound path resolved against the base's path, and the
\* inbound query (the base's when the reference has neither path nor
\* query).
singleJoiningURL(base, requestURL) ==
    [scheme |-> base.scheme,
     host   |-> base.host,
     path   |-> resolvePath(base.path, requestURL.path),
     query  |-> IF requestURL.path = <<>> /\ requestURL.query = <<>>
                THEN base.query ELSE requestURL.query]

(***************************************************************************)
(* Signer (package auth)                                                   *)
(***************************************************************************)

HeaderAPIKey == "x-api-key-id"
HeaderSignature == "x-signature"
HeaderTimestamp == "x-timestamp"

\* The date and time of a clock reading in UTC, to the second.
DateTime(t) ==
    CASE t.sec = 0 -> "1970-01-01T00:00:00"
      [] t.sec = 1700000000 -> "2023-11-14T22:13:20"
      [] t.sec = 1700000001 -> "2023-11-14T22:13:21"

\* FormatRFC3339 as it would be with time.RFC3339Nano: the fraction of the
\* second is printed when there is one.
FormatRFC3339Nano(t) ==
    IF t.nsec = 0 THEN <<DateTime(t), "Z">>
    ELSE <<DateTime(t),
           CASE t.nsec = 500000000 -> ".5" [] OTHER -> ".000000001",
           "Z">>

\* Time.Format(time.RFC3339) of a clock reading in UTC: date and time to
\* the second, then "Z"; the nanoseconds are not printed.
FormatRFC3339(t) == <<DateTime(t), "Z">>

\* hex.EncodeToString of the HMAC-SHA256 of the payload under the secret,
\* as a term over its two inputs.
HmacHex(secret, payload) == <<"hmac-sha256(">> \o secret \o <<",">> \o payload \o <<")">>

\* SigningPayload as it would be without the method.
SigningPayloadNoMethod(method, path, timestamp) ==
    path \o <<"\n">> \o timestamp

\* strings.Join([]string{method, path, timestamp}, "\n")
SigningPayload(method, path, timestamp) ==
    <<method, "\n">> \o path \o <<"\n">> \o timestamp

\* AttachSignature as it would be if only the key had to be set.
AttachSignatureKeyOnly(s, r, now) ==
    IF s.Key = <<>>
    THEN [err |-> TRUE, header |-> r.header]
    ELSE LET timestamp == FormatRFC3339(now)
             signature == HmacHex(s.Secret,
                              SigningPayload(r.method, r.path, timestamp))
             h1 == HeaderSet(r.header, HeaderAPIKey, s.Key)
             h2 == HeaderSet(h1, HeaderSignature, signature)
             h3 == HeaderSet(h2, HeaderTimestamp, timestamp)
         IN [err |-> FALSE, header |-> h3]

\* Signer.AttachSignature on the request r (its method, its URL's path and
\* query, its header, its body) when the signer's clock reads now: the
\* error flag and the header of the request after the call.
AttachSignature(s, r, now) ==
    IF s.Key = <<>> \/ s.Secret = <<>>
    THEN [err |-> TRUE, header |-> r.header]
    ELSE LET timestamp == FormatRFC3339(now)
             signature == HmacHex(s.Secret,
                              SigningPayload(r.method, r.path, timestamp))
             h1 == HeaderSet(r.header, HeaderAPIKey, s.Key)
             h2 == HeaderSet(h1, HeaderSignature, signature)
             h3 == HeaderSet(h2, HeaderTimestamp, timestamp)
         IN [err |-> FALSE, header |-> h3]

(***************************************************************************)
(* net/http as the handler uses it                                         *)
(***************************************************************************)

StatusOK == 200
StatusBadRequest == 400
StatusNotFound == 404
StatusInternalServerError == 500
StatusBadGateway == 502
StatusGatewayTimeout == 504

\* http.StatusText of the statuses the handler itself answers with.
StatusText(code) ==
    CASE code = StatusBadGateway ->
           <<"B", "a", "d", " ", "G", "a", "t", "e", "w", "a", "y">>
      [] code = StatusGatewayTimeout ->
           <<"G", "a", "t", "e", "w", "a", "y", " ", "T", "i", "m", "e", "o", "u", "t">>
      [] OTHER -> <<>>

\* The texts the handler writes itself.
StreamingUnsupported ==
    <<"s", "t", "r", "e", "a", "m", "i", "n", "g", " ",
      "u", "n", "s", "u", "p", "p", "o", "r", "t", "e", "d">>
PageNotFound ==
    <<"4", "0", "4", " ", "p", "a", "g", "e", " ", "n", "o", "t", " ",
      "f", "o", "u", "n", "d">>
OkComment == <<":", "o", "k", "\n", "\n">>
KeepaliveComment ==
    <<":", "k", "e", "e", "p", "a", "l", "i", "v", "e", "\n", "\n">>

\* A response writer nothing was written to. status 0: no status line yet;
\* sent: the header map as it was when the status line was written;
\* headerCalls: the calls of WriteHeader, the one a first Write makes
\* included.
NewWriter(flusher) ==
    [header |-> NoHeader, status |-> 0, sent |-> NoHeader, body |-> <<>>,
     flusher |-> flusher, flushes |-> 0, headerCalls |-> 0]

\* ResponseWriter.WriteHeader: the first call writes the status line and the
\* header map as it is then; a later call is superfluous and changes
\* nothing of what the client gets.
WriteHeader(w, code) ==
    IF w.status = 0
    THEN [w EXCEPT !.status = code, !.sent = w.header,
                   !.headerCalls = w.headerCalls + 1]
    ELSE [w EXCEPT !.headerCalls = w.headerCalls + 1]

\* ResponseWriter.Write: calls WriteHeader(200) first when no status line
\* was written, then writes the bytes.
Write(w, bytes) ==
    LET w1 == IF w.status = 0 THEN WriteHeader(w, StatusOK) ELSE w IN
    [w1 EXCEPT !.body = Concat(w1.body, bytes)]

\* A Write that fails: the status line is taken as written, no byte is.
WriteFailed(w) == IF w.status = 0 THEN WriteHeader(w, StatusOK) ELSE w

\* Flusher.Flush
Flush(w) == [w EXCEPT !.flushes = w.flushes + 1]

\* http.Error: replies with the text and a newline under the status code.
HttpError(w, text, code) ==
    LET h1 == HeaderDel(w.header, "Content-Length")
        h2 == HeaderSet(h1, "Content-Type", <<"text/plain; charset=utf-8">>)
        h3 == HeaderSet(h2, "X-Content-Type-Options", <<"nosniff">>)
        w1 == WriteHeader([w EXCEPT !.header = h3], code)
    IN Write(w1, Bytes(text \o <<"\n">>))

\* http.NotFound
HttpNotFound(w) == HttpError(w, PageNotFound, StatusNotFound)

\* The redirect statuses http.Client follows (redirectBehavior): 301, 302
\* and 303 turn every method but GET and HEAD into GET and drop the body,
\* 307 and 308 keep method and body. The Proxy's client sets no
\* CheckRedirect, so the default policy is in force.
RedirectBehavior(method, status) ==
    IF status \in {301, 302, 303}
    THEN [shouldRedirect |-> TRUE,
          method |-> IF method \notin {"GET", "HEAD"} THEN "GET" ELSE method,
          includeBody |-> FALSE]
    ELSE IF status \in {307, 308}
    THEN [shouldRedirect |-> TRUE, method |-> method, includeBody |-> TRUE]
    ELSE [shouldRedirect |-> FALSE, method |-> method, includeBody |-> FALSE]

\* The request http.Client sends next after a redirect response: the first
\* request's headers with a Referer naming its URL, the method and body
\* redirectBehavior gives, the Location (a path on the same host) as the
\* path.
RedirectRequest(ireq, resp) ==
    LET rb == RedirectBehavior(ireq.method, resp.status) IN
    [method |-> rb.method,
     scheme |-> ireq.scheme,
     host   |-> ireq.host,
     path   |-> HeaderGet(resp.header, "Location"),
     query  |-> <<>>,
     header |-> IF HeaderGet(ireq.header, "Referer") # <<>>
                THEN HeaderSet(ireq.header, "Referer",
                               HeaderGet(ireq.header, "Referer"))
                ELSE HeaderSet(ireq.header, "Referer",
                         <<ireq.scheme, "://">> \o ireq.host \o ireq.path
                         \o (IF ireq.query = <<>> THEN <<>>
                             ELSE <<"?">> \o ireq.query)),
     body   |-> IF rb.includeBody THEN ireq.body ELSE <<>>]

\* Whether http.Client follows the response instead of returning it.
FollowsRedirect(ireq, resp) ==
    /\ RedirectBehavior(ireq.method, resp.status).shouldRedirect
    /\ HeaderGet(resp.header, "Location") # <<>>

\* The errors Client.Do returns, as what errors.Is and net.Error.Timeout
\* report of them.
ErrCanceled == [is |-> "context.Canceled", timeout |-> FALSE]
ErrDeadlineExceeded == [is |-> "context.DeadlineExceeded", timeout |-> TRUE]
ErrClientTimeout == [is |-> "other", timeout |-> TRUE]
ErrConnectionRefused == [is |-> "other", timeout |-> FALSE]
NoDoError == [is |-> "none", timeout |-> FALSE]

\* ClassifyDoError as it would be without the net.Error timeout case.
ClassifyDoErrorNoTimeout(e) ==
    IF e.is \in {"context.Canceled", "context.DeadlineExceeded"}
    THEN [kind |-> "httpError", status |-> StatusGatewayTimeout]
    ELSE [kind |-> "perform upstream request", status |-> 0]

\* The error forwardRequest returns for an error of Client.Do: an httpError
\* with status 504, or the wrapped error.
ClassifyDoError(e) ==
    IF e.is \in {"context.Canceled", "context.DeadlineExceeded"}
    THEN [kind |-> "httpError", status |-> StatusGatewayTimeout]
    ELSE IF e.timeout
         THEN [kind |-> "httpError", status |-> StatusGatewayTimeout]
         ELSE [kind |-> "perform upstream request", status |-> 0]

\* ErrorStatus as it would be if an unreadable request body were answered
\* as the client's error.
ErrorStatusReadIsBadRequest(err) ==
    IF err.kind = "httpError" THEN err.status
    ELSE IF err.kind = "read request body" THEN StatusBadRequest
    ELSE StatusBadGateway

\* The status ServeHTTP answers an error of forwardRequest with: 502 unless
\* the error is an httpError, whose status it takes.
ErrorStatus(err) ==
    IF err.kind = "httpError" THEN err.status ELSE StatusBadGateway

NoError == [kind |-> "none", status |-> 0]

\* The cap as it would be with 1000 for 1024.
maxLogBodyShort == 64 * 1000

\* The cap of the error body that is read for the log.
maxLogBody == 64 * 1024

(***************************************************************************)
(* Bounds and inputs                                                       *)
(***************************************************************************)

\* The transport answers with a redirect at most this many times for one
\* inbound request (fewer than the ten http.Client follows).
MaxRedirects == 1

\* The ticker of an event stream fires at most this many times.
MaxTicks == 2

\* The longest upstream body is this many bytes over the cap maxLogBody.
MaxOver == 1

\* The ServeHTTP calls that run side by side on one Proxy.
NumHandlers == 2

Methods == {"GET", "POST"}

Paths ==
    {<<"/">>,
     McpPath,
     McpPath \o <<"/">>,
     McpPath \o <<"/", "/">>,
     DiscoveryPrefix,
     DiscoveryPrefix \o <<"/", "foo">>,
     <<"/", ".well-known">>,
     <<"/", "rpc">>,
     <<"/", "a", "/", "..", "/", "rpc">>}

\* The header lines a client sends: none; hop-by-hop names in several
\* letter cases and a header with two values; forwarded-for lines, a
\* forged signature, a session id.
ReqWires ==
    {<<>>,
     << <<"connection", <<"close">> >>,
        <<"TE", <<"trailers">> >>,
        <<"Content-Type", <<"application/json">> >>,
        <<"Accept", <<"application/json">> >>,
        <<"Accept", <<"text/event-stream">> >> >>,
     << <<"X-Forwarded-For", <<"10.0.0.1">> >>,
        <<"X-Forwarded-For", <<"10.0.0.2">> >>,
        <<"x-signature", <<"forged">> >>,
        <<"x-session-id", <<"client">> >>,
        <<"Upgrade", <<"websocket">> >> >>}

ReqBodies == {<<>>, Bytes(<<"{", "}">>)}

\* The query strings of the model: none, and one.
Queries == {<<>>, <<"foo=bar">>}

\* The paths on which the model varies the header lines and the body.
RichPaths == {McpPath, <<"/", "rpc">>}

\* The inbound requests: every method on every path, and on the rich paths
\* every choice of header lines and body, and a query string.
Requests ==
    {[method     |-> x.method,
      path       |-> x.path,
      query      |-> x.query,
      header     |-> FromWire(x.wire),
      body       |-> x.body,
      remoteAddr |-> <<"192.0.2.1", ":", "1234">>,
      host       |-> <<"proxy">>] :
        x \in {y \in [method : Methods, path : Paths, query : Queries,
                      wire : ReqWires, body : ReqBodies] :
                 \/ y.wire = <<>> /\ y.body = <<>>
                      /\ (y.query = <<>> \/ y.path \in RichPaths)
                 \/ y.path \in RichPaths /\ y.query = <<>>}}

\* The session header settings of the model: the default name with a
\* value and without one, a hop-by-hop name with a value and without one,
\* the name of a signature header.
Sessions ==
    {[name |-> "x-session-id", value |-> <<"session-123">>],
     [name |-> "x-session-id", value |-> <<>>],
     [name |-> "Connection", value |-> <<"close">>],
     [name |-> "Connection", value |-> <<>>],
     [name |-> "x-signature", value |-> <<"session-123">>]}

\* The configurations a Proxy is constructed with: a signer with key and
\* secret under every session setting, and under the first one a signer
\* without a key and one without a secret.
Configs ==
    {[Upstream |-> [scheme |-> "https", host |-> <<"upstream.example.com">>,
                    path |-> <<"/", "root">>, query |-> <<>>],
      APIKey |-> c.key, APISecret |-> c.secret,
      SessionHeader |-> c.session.name, SessionValue |-> c.session.value] :
        c \in {x \in [key : {<<"key-id">>, <<>>},
                      secret : {<<"secret-value">>, <<>>},
                      session : Sessions] :
                 \/ x.key # <<>> /\ x.secret # <<>>
                 \/ /\ x.session.name = "x-session-id"
                    /\ x.session.value # <<>>
                    /\ (x.key # <<>> \/ x.secret # <<>>)}}

\* The reading of the signer's clock while the handler serves.
Times == {[sec |-> 1700000000, nsec |-> 0]}

UpStatuses == {200, 302, 307, 404, 500}

\* The header lines an upstream sends: none; a Location (on a response
\* that also declares its length); hop-by-hop names
\* and a header with two values.
RespWires ==
    {<<>>,
     << <<"Location", <<"/", "moved">> >>,
        <<"Content-Type", <<"text/plain">> >> >>,
     << <<"transfer-encoding", <<"chunked">> >>,
        <<"Keep-Alive", <<"timeout=5">> >>,
        <<"Set-Cookie", <<"a=1">> >>,
        <<"Set-Cookie", <<"b=2">> >> >>}

\* The bodies an upstream sends: empty, short, exactly the cap, over it.
UpBodies ==
    {<<>>,
     Bytes(<<"u", "p">>),
     <<[b |-> "e", n |-> maxLogBody]>>}
    \cup {<<[b |-> "e", n |-> maxLogBody], [b |-> "x", n |-> k]>> : k \in 1..MaxOver}

\* strconv.Itoa: the decimal digits of a number.
RECURSIVE Itoa(_)
Itoa(n) ==
    LET digit(d) == <<"0", "1", "2", "3", "4", "5", "6", "7", "8", "9">>[d + 1]
    IN IF n < 10 THEN <<digit(n)>>
       ELSE Itoa(n \div 10) \o <<digit(n % 10)>>

\* The header of a response as the transport hands it over: the header
\* lines, and for a response that is not chunked and has header lines a
\* Content-Length with the length of its body.
ResponseHeader(wire, body) ==
    LET h == FromWire(wire) IN
    IF h # NoHeader /\ "Transfer-Encoding" \notin DOMAIN h
    THEN HeaderSet(h, "Content-Length", Itoa(BLen(body)))
    ELSE h

UpResponses ==
    {[status |-> x.status, header |-> ResponseHeader(x.wire, x.body),
      body |-> x.body] :
        x \in [status : UpStatuses, wire : RespWires, body : UpBodies]}

NoRequest ==
    [method |-> "", path |-> <<>>, query |-> <<>>, header |-> NoHeader,
     body |-> <<>>, remoteAddr |-> <<>>, host |-> <<>>]
NoUpstreamRequest ==
    [method |-> "", scheme |-> "", host |-> <<>>, path |-> <<>>,
     query |-> <<>>, header |-> NoHeader, body |-> <<>>]
NoResponse == [status |-> 0, header |-> NoHeader, body |-> <<>>]
NoReader == [data |-> <<>>, broken |-> FALSE]

(***************************************************************************)
(* State                                                                   *)
(***************************************************************************)

VARIABLES
    cfg,          \* Proxy.cfg with the signer's key and secret and baseURL
    pc,           \* where ServeHTTP stands
    req,          \* the inbound request r
    ctxDone,      \* r.Context() is done (cancelled or past its deadline)
    route,        \* the path ServeHTTP took: stream, discovery or forward
    upstreamReq,  \* the request Client.Do sends next
    outbound,     \* the requests the transport was invoked with, in order
    resp,         \* the response forwardRequest returned
    followed,     \* the statuses of the responses Client.Do followed itself
    doErr,        \* the error Client.Do returned
    err,          \* the error forwardRequest returned
    w,            \* the response writer
    bodyReader,   \* what io.Copy reads the response body from
    readErr,      \* reading the upstream error body failed
    copyErr,      \* io.Copy failed
    closes,       \* calls of resp.Body.Close made by ServeHTTP
    tickPending,  \* ticker.C holds a tick
    ticks,        \* ticks the ticker has fired
    calls,        \* the AttachSignature calls made on a Signer alone
    handlers,     \* the ServeHTTP calls that run side by side on one Proxy
    lateBeats,    \* heartbeats written after the context was done
    main          \* where func main stands, with its environment

vars ==
    <<cfg, pc, req, ctxDone, route, upstreamReq, outbound, resp, followed,
      doErr, err, w, bodyReader, readErr, copyErr, closes, tickPending, ticks,
      calls, handlers, lateBeats, main>>

\* The signer New constructs from the configuration.
NewSigner(key, secret) == [Key |-> key, Secret |-> secret]

\* How an outbound call ended: not yet, with a response, or with an error.
NoOutcome == [resp |-> NoResponse, err |-> NoError]

\* A ServeHTTP call that has not started: no request, nothing sent or
\* written.
IdleHandler ==
    [pc |-> "idle", req |-> NoRequest, out |-> NoUpstreamRequest,
     outcome |-> NoOutcome, w |-> NewWriter(TRUE)]

\* func main is not part of the run: the Proxy is constructed from a
\* configuration as it is.
NoMain == [pc |-> "none"]

\* No request was served yet.
Fresh ==
    /\ pc = "idle"
    /\ req = NoRequest
    /\ ctxDone = FALSE
    /\ route = "none"
    /\ upstreamReq = NoUpstreamRequest
    /\ outbound = <<>>
    /\ resp = NoResponse
    /\ followed = <<>>
    /\ doErr = NoDoError
    /\ err = NoError
    /\ w = NewWriter(FALSE)
    /\ bodyReader = NoReader
    /\ readErr = FALSE
    /\ copyErr = FALSE
    /\ closes = 0
    /\ tickPending = FALSE
    /\ ticks = 0
    /\ calls = <<>>
    /\ handlers = [i \in 1..NumHandlers |-> IdleHandler]
    /\ lateBeats = 0

\* New: a Proxy for a configuration, before it has served anything.
Init ==
    /\ cfg \in Configs
    /\ main = NoMain
    /\ Fresh

\* The server hands a request and a response writer to ServeHTTP.
Receive ==
    /\ pc = "idle"
    /\ \E r \in Requests, flusher \in BOOLEAN :
         /\ req' = r
         /\ w' = NewWriter(flusher)
    /\ pc' = "serve"
    /\ UNCHANGED <<main, calls, handlers, lateBeats,
                   cfg, ctxDone, route, upstreamReq, outbound, resp,
                   err, bodyReader, readErr, copyErr, closes,
                   tickPending, ticks, followed, doErr>>

\* ServeHTTP has returned: everything of the request is dropped and the
\* handler, whose Proxy is as it was constructed, serves the next one.
Return ==
    /\ pc = "done"
    /\ pc' = "idle"
    /\ req' = NoRequest
    /\ w' = NewWriter(FALSE)
    /\ ctxDone' = FALSE
    /\ route' = "none"
    /\ upstreamReq' = NoUpstreamRequest
    /\ outbound' = <<>>
    /\ resp' = NoResponse
    /\ followed' = <<>>
    /\ doErr' = NoDoError
    /\ err' = NoError
    /\ bodyReader' = NoReader
    /\ readErr' = FALSE
    /\ copyErr' = FALSE
    /\ closes' = 0
    /\ tickPending' = FALSE
    /\ ticks' = 0
    /\ lateBeats' = 0
    /\ UNCHANGED <<main, calls, handlers, cfg>>

\* The request's context is cancelled: the client went away, the server
\* shuts down or the deadline passed. The handler looks at the context in
\* the event-stream loop and in the outbound call.
Cancel ==
    /\ pc \in {"sse", "inflight"}
    /\ ~ctxDone
    /\ ctxDone' = TRUE
    /\ UNCHANGED <<main, calls, handlers, lateBeats,
                   cfg, pc, req, route, upstreamReq, outbound, resp,
                   err, w, bodyReader, readErr, copyErr, closes,
                   tickPending, ticks, followed, doErr>>

\* The routing of ServeHTTP as it would be without the discovery shortcut.
RouteDiscoveryForwarded(r) ==
    IF r.method = "GET" /\ isEventStreamPath(r.path) THEN "stream"
    ELSE "forward"

\* The routing of ServeHTTP.
Route(r) ==
    IF r.method = "GET" /\ isEventStreamPath(r.path) THEN "stream"
    ELSE IF r.method = "GET" /\ isDiscoveryPath(r.path) THEN "discovery"
    ELSE "forward"

\* ServeHTTP picks the handling path.
Dispatch ==
    /\ pc = "serve"
    /\ route' = Route(req)
    /\ pc' = Route(req)
    /\ UNCHANGED <<main, calls, handlers, lateBeats,
                   cfg, req, ctxDone, upstreamReq, outbound, resp, err,
                   w, bodyReader, readErr, copyErr, closes,
                   tickPending, ticks, followed, doErr>>

\* serveDiscovery answers 404.
ServeDiscovery ==
    /\ pc = "discovery"
    /\ w' = HttpNotFound(w)
    /\ pc' = "done"
    /\ UNCHANGED <<main, calls, handlers, lateBeats,
                   cfg, req, ctxDone, route, upstreamReq, outbound,
                   resp, err, bodyReader, readErr, copyErr,
                   closes, tickPending, ticks, followed, doErr>>

\* The three headers serveEventStream sets.
EventStreamHeaders(h) ==
    HeaderSet(HeaderSet(HeaderSet(h,
        "Content-Type", <<"text/event-stream">>),
        "Cache-Control", <<"no-cache">>),
        "Connection", <<"keep-alive">>)

\* ServeEventStream as it would be if the headers were set before the
\* writer is asked for its Flusher.
ServeEventStreamHeadersFirst ==
    /\ pc = "stream"
    /\ \/ /\ ~w.flusher
          /\ w' = HttpError([w EXCEPT !.header = EventStreamHeaders(w.header)],
                            StreamingUnsupported, StatusInternalServerError)
          /\ pc' = "done"
       \/ /\ w.flusher
          /\ w' = WriteFailed([w EXCEPT !.header = EventStreamHeaders(w.header)])
          /\ pc' = "done"
       \/ /\ w.flusher
          /\ w' = Flush(Write([w EXCEPT !.header = EventStreamHeaders(w.header)],
                              Bytes(OkComment)))
          /\ pc' = "sse"
    /\ UNCHANGED <<main, calls, handlers, lateBeats,
                   cfg, req, ctxDone, route, upstreamReq, outbound,
                   resp, err, bodyReader, readErr, copyErr,
                   closes, tickPending, ticks, followed, doErr>>

\* serveEventStream up to its loop: 500 without a Flusher; else the
\* headers and the ":ok" comment, whose write may fail.
ServeEventStream ==
    /\ pc = "stream"
    /\ \/ /\ ~w.flusher
          /\ w' = HttpError(w, StreamingUnsupported, StatusInternalServerError)
          /\ pc' = "done"
       \/ /\ w.flusher
          /\ w' = WriteFailed([w EXCEPT !.header = EventStreamHeaders(w.header)])
          /\ pc' = "done"
       \/ /\ w.flusher
          /\ w' = Flush(Write([w EXCEPT !.header = EventStreamHeaders(w.header)],
                              Bytes(OkComment)))
          /\ pc' = "sse"
    /\ UNCHANGED <<main, calls, handlers, lateBeats,
                   cfg, req, ctxDone, route, upstreamReq, outbound,
                   resp, err, bodyReader, readErr, copyErr,
                   closes, tickPending, ticks, followed, doErr>>

\* The ticker fires: ticker.C, a channel of capacity one, takes the tick
\* unless it holds one.
TickerFire ==
    /\ pc = "sse"
    /\ ~tickPending
    /\ ticks < MaxTicks
    /\ tickPending' = TRUE
    /\ ticks' = ticks + 1
    /\ UNCHANGED <<main, calls, handlers, lateBeats,
                   cfg, pc, req, ctxDone, route, upstreamReq, outbound,
                   resp, err, w, bodyReader, readErr, copyErr,
                   closes, followed, doErr>>

\* Heartbeat as it would be without the flush.
HeartbeatNoFlush ==
    /\ pc = "sse"
    /\ tickPending
    /\ tickPending' = FALSE
    /\ \/ /\ w' = Write(w, Bytes(KeepaliveComment))
          /\ lateBeats' = IF ctxDone THEN lateBeats + 1 ELSE lateBeats
          /\ pc' = "sse"
       \/ /\ w' = w
          /\ pc' = "done"
          /\ UNCHANGED lateBeats
    /\ UNCHANGED <<main, calls, handlers, cfg, req, ctxDone, route, upstreamReq, outbound,
                   resp, err, bodyReader, readErr, copyErr,
                   closes, ticks, followed, doErr>>

\* The select takes the tick: a keepalive comment and a flush, or the end
\* of the loop when the write fails.
Heartbeat ==
    /\ pc = "sse"
    /\ tickPending
    /\ tickPending' = FALSE
    /\ \/ /\ w' = Flush(Write(w, Bytes(KeepaliveComment)))
          /\ lateBeats' = IF ctxDone THEN lateBeats + 1 ELSE lateBeats
          /\ pc' = "sse"
       \/ /\ w' = w
          /\ pc' = "done"
          /\ UNCHANGED lateBeats
    /\ UNCHANGED <<main, calls, handlers, cfg, req, ctxDone, route, upstreamReq, outbound,
                   resp, err, bodyReader, readErr, copyErr,
                   closes, ticks, followed, doErr>>

\* The select takes the context's Done: the loop ends.
StreamClosed ==
    /\ pc = "sse"
    /\ ctxDone
    /\ pc' = "done"
    /\ UNCHANGED <<main, calls, handlers, lateBeats,
                   cfg, req, ctxDone, route, upstreamReq, outbound,
                   resp, err, w, bodyReader, readErr, copyErr,
                   closes, tickPending, ticks, followed, doErr>>

(***************************************************************************)
(* The forwarding engine                                                   *)
(***************************************************************************)

\* BuildUpstreamRequest as it would be with Header.Add for the session
\* header.
BuildUpstreamRequestAddSession(c, r) ==
    LET targetURL == singleJoiningURL(c.Upstream, [path |-> r.path,
                                                   query |-> r.query])
        h1 == copyHeaders(NoHeader, r.header)
        h2 == cleanHopHeaders(h1)
        h3 == augmentForwardHeaders(h2, r)
        h4 == IF c.SessionValue # <<>>
              THEN HeaderAdd(h3, c.SessionHeader, c.SessionValue)
              ELSE h3
    IN [method |-> r.method,
        scheme |-> targetURL.scheme,
        host   |-> targetURL.host,
        path   |-> targetURL.path,
        query  |-> targetURL.query,
        header |-> h4,
        body   |-> r.body]

\* forwardRequest from the URL to the session header: the outbound request
\* before it is signed.
BuildUpstreamRequest(c, r) ==
    LET targetURL == singleJoiningURL(c.Upstream, [path |-> r.path,
                                                   query |-> r.query])
        h1 == copyHeaders(NoHeader, r.header)
        h2 == cleanHopHeaders(h1)
        h3 == augmentForwardHeaders(h2, r)
        h4 == IF c.SessionValue # <<>>
              THEN HeaderSet(h3, c.SessionHeader, c.SessionValue)
              ELSE h3
    IN [method |-> r.method,
        scheme |-> targetURL.scheme,
        host   |-> targetURL.host,
        path   |-> targetURL.path,
        query  |-> targetURL.query,
        header |-> h4,
        body   |-> r.body]

\* forwardRequest as it would be with the session header set after the
\* request is signed.
ForwardRequestSessionLast ==
    /\ pc = "forward"
    /\ \/ /\ err' = [kind |-> "read request body", status |-> 0]
          /\ pc' = "failed"
          /\ UNCHANGED upstreamReq
       \/ \E now \in Times :
            LET built == BuildUpstreamRequest(cfg, req)
                signed == AttachSignature(NewSigner(cfg.APIKey, cfg.APISecret),
                                          built, now)
                last == IF cfg.SessionValue # <<>>
                        THEN HeaderSet(signed.header, cfg.SessionHeader,
                                       cfg.SessionValue)
                        ELSE signed.header
            IN /\ upstreamReq' = [built EXCEPT !.header = last]
               /\ IF signed.err
                  THEN /\ err' = [kind |-> "sign request", status |-> 0]
                       /\ pc' = "failed"
                  ELSE /\ pc' = "do"
                       /\ UNCHANGED err
    /\ UNCHANGED <<main, calls, handlers, lateBeats,
                   cfg, req, ctxDone, route, outbound, resp, w,
                   bodyReader, readErr, copyErr, closes,
                   tickPending, ticks, followed, doErr>>

\* forwardRequest up to the outbound call: reading the inbound body may
\* fail, signing may fail; otherwise the signed request is ready to send.
\* upstreamReq is the request as AttachSignature left it, also when it
\* failed. (The methods and URLs of the model are valid, so building the
\* request with http.NewRequestWithContext does not fail.)
ForwardRequest ==
    /\ pc = "forward"
    /\ \/ /\ err' = [kind |-> "read request body", status |-> 0]
          /\ pc' = "failed"
          /\ UNCHANGED upstreamReq
       \/ \E now \in Times :
            LET built == BuildUpstreamRequest(cfg, req)
                signed == AttachSignature(NewSigner(cfg.APIKey, cfg.APISecret),
                                          built, now)
            IN /\ upstreamReq' = [built EXCEPT !.header = signed.header]
               /\ IF signed.err
                  THEN /\ err' = [kind |-> "sign request", status |-> 0]
                       /\ pc' = "failed"
                  ELSE /\ pc' = "do"
                       /\ UNCHANGED err
    /\ UNCHANGED <<main, calls, handlers, lateBeats,
                   cfg, req, ctxDone, route, outbound, resp, w,
                   bodyReader, readErr, copyErr, closes,
                   tickPending, ticks, followed, doErr>>

\* RoundTrip as it would be in a handler that writes the status line when
\* it starts the outbound call.
RoundTripEarlyStatus ==
    /\ pc = "do"
    /\ outbound' = Append(outbound, upstreamReq)
    /\ w' = WriteHeader(w, StatusOK)
    /\ pc' = "inflight"
    /\ UNCHANGED <<main, calls, handlers, lateBeats,
                   cfg, req, ctxDone, route, upstreamReq, resp, err,
                   bodyReader, readErr, copyErr, closes,
                   tickPending, ticks, followed, doErr>>

\* The context of the outbound request as it would be were the request
\* built on a context of its own: never done.
OutboundContextBackground == FALSE

\* The outbound request is built on the inbound request's context, so its
\* context is done when that one is.
OutboundContextDone == ctxDone

\* Client.Do hands the request it has to send to the transport, which
\* sends it unless the request's context is done already: then the call
\* ends with the context's error and nothing is sent.
RoundTrip ==
    /\ pc = "do"
    /\ IF OutboundContextDone
       THEN /\ doErr' = ErrCanceled
            /\ err' = ClassifyDoError(ErrCanceled)
            /\ pc' = "failed"
            /\ UNCHANGED outbound
       ELSE /\ outbound' = Append(outbound, upstreamReq)
            /\ pc' = "inflight"
            /\ UNCHANGED <<doErr, err>>
    /\ UNCHANGED <<main, calls, handlers, lateBeats,
                   cfg, req, ctxDone, route,
                   upstreamReq, resp, w, bodyReader, readErr, copyErr,
                   closes, tickPending, ticks, followed>>

\* The errors an outbound call can end with: a cancelled context only once
\* the context is done.
DoErrors ==
    {ErrDeadlineExceeded, ErrClientTimeout, ErrConnectionRefused}
    \cup (IF OutboundContextDone THEN {ErrCanceled} ELSE {})

\* The outbound call fails: forwardRequest returns the classified error.
RoundTripError ==
    /\ pc = "inflight"
    /\ \E e \in DoErrors :
         /\ doErr' = e
         /\ err' = ClassifyDoError(e)
    /\ pc' = "failed"
    /\ UNCHANGED <<main, calls, handlers, lateBeats,
                   cfg, req, ctxDone, route, upstreamReq, outbound,
                   resp, w, bodyReader, readErr, copyErr, closes,
                   tickPending, ticks, followed>>

\* The transport returns a response: Client.Do follows it when it is a
\* redirect, and otherwise forwardRequest returns it.
RoundTripResponse ==
    /\ pc = "inflight"
    /\ \E rsp \in UpResponses :
         IF FollowsRedirect(upstreamReq, rsp)
         THEN /\ Len(outbound) <= MaxRedirects
              /\ upstreamReq' = RedirectRequest(upstreamReq, rsp)
              /\ followed' = Append(followed, rsp.status)
              /\ pc' = "do"
              /\ UNCHANGED resp
         ELSE /\ resp' = rsp
              /\ pc' = "relay"
              /\ UNCHANGED <<upstreamReq, followed>>
    /\ UNCHANGED <<main, calls, handlers, lateBeats,
                   cfg, req, ctxDone, route, outbound, err, w,
                   bodyReader, readErr, copyErr, closes,
                   tickPending, ticks, doErr>>

\* ServeHTTP answers an error of forwardRequest with the status text.
ServeError ==
    /\ pc = "failed"
    /\ w' = HttpError(w, StatusText(ErrorStatus(err)), ErrorStatus(err))
    /\ pc' = "done"
    /\ UNCHANGED <<main, calls, handlers, lateBeats,
                   cfg, req, ctxDone, route, upstreamReq, outbound,
                   resp, err, bodyReader, readErr, copyErr,
                   closes, tickPending, ticks, followed, doErr>>

\* RelayHeader as it would be with the status line written before the
\* headers are copied.
RelayHeaderStatusFirst(wr, rsp) ==
    [WriteHeader(wr, rsp.status) EXCEPT !.header =
        copyResponseHeaders(wr.header, cleanHopHeaders(rsp.header))]

\* The header and status line ServeHTTP relays for a response.
RelayHeader(wr, rsp) ==
    WriteHeader([wr EXCEPT !.header =
                    copyResponseHeaders(wr.header, cleanHopHeaders(rsp.header))],
                rsp.status)

\* ServeHTTP with a response in hand: an error body is read up to the cap
\* and replayed, any other body is streamed; then the headers and the
\* status line are written.
Relay ==
    /\ pc = "relay"
    /\ \/ /\ resp.status >= StatusBadRequest
          /\ readErr' = TRUE
          /\ bodyReader' = [data |-> <<>>, broken |-> TRUE]
       \/ /\ resp.status >= StatusBadRequest
          /\ readErr' = FALSE
          /\ bodyReader' = [data |-> LimitRead(resp.body, maxLogBody),
                            broken |-> FALSE]
       \/ /\ resp.status < StatusBadRequest
          /\ readErr' = FALSE
          /\ bodyReader' = [data |-> resp.body, broken |-> FALSE]
    /\ w' = RelayHeader(w, resp)
    /\ pc' = "copy"
    /\ UNCHANGED <<main, calls, handlers, lateBeats,
                   cfg, req, ctxDone, route, upstreamReq, outbound,
                   resp, err, copyErr, closes, tickPending,
                   ticks, followed, doErr>>

\* The copy to the client as it would be in a handler that answers a
\* failed copy with http.Error.
CopyBodyAnswersFailure ==
    /\ pc = "copy"
    /\ \/ /\ ~bodyReader.broken
          /\ w' = Write(w, bodyReader.data)
          /\ copyErr' = FALSE
       \/ /\ w' = HttpError(w, StatusText(StatusBadGateway), StatusBadGateway)
          /\ copyErr' = TRUE
    /\ closes' = closes + 1
    /\ pc' = "done"
    /\ UNCHANGED <<main, calls, handlers, lateBeats,
                   cfg, req, ctxDone, route, upstreamReq, outbound,
                   resp, err, bodyReader, readErr, tickPending,
                   ticks, followed, doErr>>

\* The copy to the client as it would be in a handler that closes the
\* response body after a copy that went well, and not by defer.
CopyBodyCloseOnSuccess ==
    /\ pc = "copy"
    /\ \/ /\ ~bodyReader.broken
          /\ w' = Write(w, bodyReader.data)
          /\ copyErr' = FALSE
          /\ closes' = closes + 1
       \/ /\ w' = w
          /\ copyErr' = TRUE
          /\ closes' = closes
    /\ pc' = "done"
    /\ UNCHANGED <<main, calls, handlers, lateBeats,
                   cfg, req, ctxDone, route, upstreamReq, outbound,
                   resp, err, bodyReader, readErr, tickPending,
                   ticks, followed, doErr>>

\* io.Copy to the client, which fails when the reader is broken and may
\* fail otherwise; then the deferred Close of the response body.
CopyBody ==
    /\ pc = "copy"
    /\ \/ /\ ~bodyReader.broken
          /\ w' = Write(w, bodyReader.data)
          /\ copyErr' = FALSE
       \/ /\ w' = w
          /\ copyErr' = TRUE
    /\ closes' = closes + 1
    /\ pc' = "done"
    /\ UNCHANGED <<main, calls, handlers, lateBeats,
                   cfg, req, ctxDone, route, upstreamReq, outbound,
                   resp, err, bodyReader, readErr, tickPending,
                   ticks, followed, doErr>>

Next ==
    \/ Receive
    \/ Return
    \/ Cancel
    \/ Dispatch
    \/ ServeDiscovery
    \/ ServeEventStream
    \/ TickerFire
    \/ Heartbeat
    \/ StreamClosed
    \/ ForwardRequest
    \/ RoundTrip
    \/ RoundTripError
    \/ RoundTripResponse
    \/ ServeError
    \/ Relay
    \/ CopyBody

Spec == Init /\ [][Next]_vars

(***************************************************************************)
(* The forwarding path alone, with the steps of ServeHTTP taken sooner or  *)
(* later: a handler that can go on does go on, and an outbound call ends,  *)
(* with a response or with an error, the timeout of the client at the      *)
(* latest.                                                                 *)
(***************************************************************************)

\* The requests of this part: both methods on a forwarded path, with every
\* choice of header lines.
LiveRequests ==
    {r \in Requests :
        r.path = <<"/", "rpc">> /\ r.query = <<>> /\ r.body = <<>>}

\* The Proxy is constructed with the default session header.
LiveInit ==
    /\ Init
    /\ cfg.SessionHeader = "x-session-id"
    /\ cfg.SessionValue # <<>>

\* The server hands a forwarded request to ServeHTTP.
LiveReceive ==
    /\ Receive
    /\ req' \in LiveRequests

\* The steps ServeHTTP takes by itself on the forwarding path.
HandlerStep ==
    \/ Dispatch
    \/ ForwardRequest
    \/ RoundTrip
    \/ RoundTripError
    \/ RoundTripResponse
    \/ ServeError
    \/ Relay
    \/ CopyBody

LiveNext ==
    \/ LiveReceive
    \/ Return
    \/ Cancel
    \/ Dispatch
    \/ ForwardRequest
    \/ RoundTrip
    \/ RoundTripError
    \/ RoundTripResponse
    \/ ServeError
    \/ Relay
    \/ CopyBody

LiveSpec == LiveInit /\ [][LiveNext]_vars /\ WF_vars(HandlerStep)

(***************************************************************************)
(* ServeHTTP calls side by side on one Proxy: the server runs every        *)
(* request in a goroutine of its own, all of them on the same Proxy value. *)
(* Each call has its own request, outbound request, outcome and writer;    *)
(* the Proxy, with its configuration, signer and base URL, is what they    *)
(* share. Their steps interleave in any order.                             *)
(***************************************************************************)

\* The requests of this part: forwarded ones, with and without headers.
ConcRequests ==
    {r \in Requests :
        /\ r.method = "POST"
        /\ r.path = <<"/", "rpc">>
        /\ r.body = <<>>
        /\ r.query = <<>>}

\* The ways the outbound call of this part ends: a success with headers
\* and body, an upstream error, a refused connection, a timeout.
ConcOutcomes ==
    {[resp |-> rsp, err |-> NoError] :
        rsp \in {u \in UpResponses :
                    /\ u.body = Bytes(<<"u", "p">>)
                    /\ \/ u.status = StatusOK /\ "Set-Cookie" \in DOMAIN u.header
                       \/ u.status = StatusInternalServerError
                             /\ u.header = NoHeader}}
    \cup {[resp |-> NoResponse, err |-> ClassifyDoError(e)] :
            e \in {ErrConnectionRefused, ErrClientTimeout}}

\* What ServeHTTP writes to a fresh writer for the way forwardRequest
\* ended: the error's status text, or the response relayed.
ConcAnswer(o) ==
    IF o.err # NoError
    THEN HttpError(NewWriter(TRUE), StatusText(ErrorStatus(o.err)),
                   ErrorStatus(o.err))
    ELSE Write(RelayHeader(NewWriter(TRUE), o.resp),
               IF o.resp.status >= StatusBadRequest
               THEN LimitRead(o.resp.body, maxLogBody)
               ELSE o.resp.body)

\* The variables of the one-request-at-a-time part, which this part
\* leaves alone.
sequentialVars ==
    <<pc, req, ctxDone, route, upstreamReq, outbound, resp, followed, doErr,
      err, w, bodyReader, readErr, copyErr, closes, tickPending, ticks,
      calls, lateBeats>>

\* The server starts ServeHTTP for a request in goroutine i.
CReceive(i) ==
    /\ handlers[i].pc = "idle"
    /\ \E r \in ConcRequests :
         handlers' = [handlers EXCEPT ![i] =
                         [IdleHandler EXCEPT !.pc = "forward", !.req = r]]
    /\ UNCHANGED <<cfg, main, sequentialVars>>

\* forwardRequest of goroutine i as it would be if the Proxy remembered
\* the session id of the last client in its configuration.
CForwardSharedSession(i) ==
    /\ handlers[i].pc = "forward"
    /\ \E now \in Times :
         LET h == handlers[i]
             built == BuildUpstreamRequest(cfg, h.req)
             signed == AttachSignature(NewSigner(cfg.APIKey, cfg.APISecret),
                                       built, now)
         IN /\ handlers' = [handlers EXCEPT ![i] =
                  [h EXCEPT !.pc = "inflight",
                            !.out = [built EXCEPT !.header = signed.header]]]
            /\ cfg' = IF HeaderGet(h.req.header, "x-session-id") # <<>>
                      THEN [cfg EXCEPT !.SessionValue =
                               HeaderGet(h.req.header, "x-session-id")]
                      ELSE cfg
    /\ UNCHANGED <<main, sequentialVars>>

\* forwardRequest of goroutine i up to the outbound call: it reads the
\* Proxy's configuration, signer and base URL and writes only its own
\* request; reading the body or signing may fail, and then ServeHTTP
\* answers with the error.
CForward(i) ==
    /\ handlers[i].pc = "forward"
    /\ LET h == handlers[i] IN
       \/ LET o == [resp |-> NoResponse,
                    err |-> [kind |-> "read request body", status |-> 0]]
          IN handlers' = [handlers EXCEPT ![i] =
                 [h EXCEPT !.pc = "done", !.outcome = o, !.w = ConcAnswer(o)]]
       \/ \E now \in Times :
            LET built == BuildUpstreamRequest(cfg, h.req)
                signed == AttachSignature(NewSigner(cfg.APIKey, cfg.APISecret),
                                          built, now)
                o == [resp |-> NoResponse,
                      err |-> [kind |-> "sign request", status |-> 0]]
            IN IF signed.err
               THEN handlers' = [handlers EXCEPT ![i] =
                        [h EXCEPT !.pc = "done", !.outcome = o,
                                  !.w = ConcAnswer(o)]]
               ELSE handlers' = [handlers EXCEPT ![i] =
                        [h EXCEPT !.pc = "inflight",
                                  !.out = [built EXCEPT
                                              !.header = signed.header]]]
    /\ UNCHANGED <<cfg, main, sequentialVars>>

\* The outbound call of goroutine i ends, and ServeHTTP writes the answer
\* to the writer of its own request.
CRespond(i) ==
    /\ handlers[i].pc = "inflight"
    /\ \E o \in ConcOutcomes :
         handlers' = [handlers EXCEPT ![i] =
             [handlers[i] EXCEPT !.pc = "done", !.outcome = o,
                                 !.w = ConcAnswer(o)]]
    /\ UNCHANGED <<cfg, main, sequentialVars>>

\* ServeHTTP of goroutine i returns.
CReturn(i) ==
    /\ handlers[i].pc = "done"
    /\ handlers' = [handlers EXCEPT ![i] = IdleHandler]
    /\ UNCHANGED <<cfg, main, sequentialVars>>

\* A Proxy with a signer that signs, or with one that lacks its key.
ConcInit ==
    /\ Init
    /\ cfg.SessionHeader = "x-session-id"
    /\ cfg.SessionValue # <<>>
    /\ cfg.APISecret # <<>>

ConcNext ==
    \E i \in 1..NumHandlers :
        \/ CReceive(i)
        \/ CForward(i)
        \/ CRespond(i)
        \/ CReturn(i)

ConcSpec == ConcInit /\ [][ConcNext]_vars

(***************************************************************************)
(* func main: config.Load reads the environment, New constructs the Proxy, *)
(* the server serves requests with it, and waitForShutdown waits for       *)
(* SIGINT or SIGTERM and stops the server. The steps of main are taken     *)
(* sooner or later; a signal and the clients come when they come.          *)
(***************************************************************************)

\* strings.TrimSpace: without the white space at both ends.
TrimSpace(s) ==
    LET kept == {i \in 1..Len(s) : s[i] \notin {" ", "\t", "\n"}} IN
    IF kept = {} THEN <<>>
    ELSE SubSeq(s, CHOOSE i \in kept : \A j \in kept : i <= j,
                   CHOOSE i \in kept : \A j \in kept : j <= i)

\* url.Parse on "scheme://host/path", on a path and on a text that starts
\* with a colon, which has no protocol scheme and does not parse.
ParseURL(raw) ==
    IF raw # <<>> /\ raw[1] = "://"
    THEN [err |-> TRUE,
          url |-> [scheme |-> "", host |-> <<>>, path |-> <<>>, query |-> <<>>]]
    ELSE IF Len(raw) >= 2 /\ raw[2] = "://"
    THEN [err |-> FALSE,
          url |-> [scheme |-> raw[1],
                   host |-> IF Len(raw) >= 3 THEN <<raw[3]>> ELSE <<>>,
                   path |-> SubSeq(raw, 4, Len(raw)),
                   query |-> <<>>]]
    ELSE [err |-> FALSE,
          url |-> [scheme |-> "", host |-> <<>>, path |-> raw, query |-> <<>>]]

\* URL.IsAbs
IsAbs(u) == u.scheme # ""

\* getString: the variable, or the fallback when it is not set.
getString(val, fallback) == IF val = "" THEN fallback ELSE val

\* No configuration: what Load returns with an error.
NoConfig ==
    [Upstream |-> [scheme |-> "", host |-> <<>>, path |-> <<>>, query |-> <<>>],
     APIKey |-> <<>>, APISecret |-> <<>>,
     SessionHeader |-> "", SessionValue |-> <<>>]

\* Load as it would be without the check of the secret.
LoadNoSecretCheck(env) ==
    LET upstreamRaw == TrimSpace(env.upstream)
        parsed == ParseURL(upstreamRaw)
        apiKey == TrimSpace(env.key)
        apiSecret == TrimSpace(env.secret)
    IN IF upstreamRaw = <<>>
       THEN [err |-> "MCP_UPSTREAM_URL is required", cfg |-> NoConfig]
       ELSE IF parsed.err
       THEN [err |-> "invalid MCP_UPSTREAM_URL", cfg |-> NoConfig]
       ELSE IF ~IsAbs(parsed.url)
       THEN [err |-> "MCP_UPSTREAM_URL must be absolute", cfg |-> NoConfig]
       ELSE IF apiKey = <<>>
       THEN [err |-> "MCP_API_KEY is required", cfg |-> NoConfig]
       ELSE [err |-> "",
             cfg |-> [Upstream |-> parsed.url,
                      APIKey |-> apiKey,
                      APISecret |-> apiSecret,
                      SessionHeader |-> getString(env.sessionHeader,
                                                  "x-session-id"),
                      SessionValue |-> TrimSpace(env.sessionValue)]]

\* Load reads configuration from environment variables and validates
\* required values.
Load(env) ==
    LET upstreamRaw == TrimSpace(env.upstream)
        parsed == ParseURL(upstreamRaw)
        apiKey == TrimSpace(env.key)
        apiSecret == TrimSpace(env.secret)
    IN IF upstreamRaw = <<>>
       THEN [err |-> "MCP_UPSTREAM_URL is required", cfg |-> NoConfig]
       ELSE IF parsed.err
       THEN [err |-> "invalid MCP_UPSTREAM_URL", cfg |-> NoConfig]
       ELSE IF ~IsAbs(parsed.url)
       THEN [err |-> "MCP_UPSTREAM_URL must be absolute", cfg |-> NoConfig]
       ELSE IF apiKey = <<>>
       THEN [err |-> "MCP_API_KEY is required", cfg |-> NoConfig]
       ELSE IF apiSecret = <<>>
       THEN [err |-> "MCP_API_SECRET is required", cfg |-> NoConfig]
       ELSE [err |-> "",
             cfg |-> [Upstream |-> parsed.url,
                      APIKey |-> apiKey,
                      APISecret |-> apiSecret,
                      SessionHeader |-> getString(env.sessionHeader,
                                                  "x-session-id"),
                      SessionValue |-> TrimSpace(env.sessionValue)]]

\* The values of MCP_UPSTREAM_URL: not set, blank, an absolute URL with
\* and without blanks around it, a path, a host alone, a text that does
\* not parse.
UpstreamRaws ==
    {<<>>,
     <<" ">>,
     <<"https", "://", "upstream.example.com", "/", "root">>,
     <<" ", "https", "://", "upstream.example.com", "/", "root", "\n">>,
     <<"/", "root">>,
     <<"upstream.example.com">>,
     <<"://", "bad">>}

\* The values of MCP_API_KEY and of MCP_API_SECRET: not set, blank, set
\* (the key with blanks around).
KeyRaws == {<<>>, <<" ">>, <<" ", "key-id", " ">>}
SecretRaws == {<<>>, <<"\t">>, <<"secret-value">>}

\* The environments main starts in.
Envs ==
    [upstream : UpstreamRaws, key : KeyRaws, secret : SecretRaws,
     sessionHeader : {"", "X-Custom"}, sessionValue : {<<"session-123", " ">>}]

\* main starts: nothing is loaded, no Proxy is constructed.
MainInit ==
    /\ cfg = NoConfig
    /\ main \in {[pc |-> "start", env |-> e, loadErr |-> "",
                   shutdowns |-> 0, shutdownErr |-> FALSE, forced |-> 0] :
                     e \in Envs}
    /\ Fresh

\* main calls Load and, without an error, New and ListenAndServe; with an
\* error log.Fatal ends the process.
MainLoad ==
    /\ main.pc = "start"
    /\ LET loaded == Load(main.env) IN
       IF loaded.err # ""
       THEN /\ main' = [main EXCEPT !.pc = "fatal", !.loadErr = loaded.err]
            /\ UNCHANGED cfg
       ELSE /\ main' = [main EXCEPT !.pc = "serving"]
            /\ cfg' = loaded.cfg
    /\ UNCHANGED sequentialVars
    /\ UNCHANGED handlers

\* The requests of this part: one for the event stream, one to forward.
MainRequests ==
    {r \in Requests :
        /\ r.header = NoHeader
        /\ r.query = <<>>
        /\ \/ r.method = "GET" /\ r.path = McpPath
           \/ r.method = "POST" /\ r.path = <<"/", "rpc">>}

\* The process runs and the server's connections are open.
Running == main.pc \in {"serving", "signalled", "shutdown", "closing"}

\* The server accepts a request while it listens: until Shutdown is called.
MainReceive ==
    /\ main.pc \in {"serving", "signalled"}
    /\ Receive
    /\ req' \in MainRequests

\* ServeHTTP goes on while the process runs.
Serve ==
    /\ Running
    /\ \/ Return
       \/ Cancel
       \/ Dispatch
       \/ ServeEventStream
       \/ TickerFire
       \/ Heartbeat
       \/ StreamClosed
       \/ ForwardRequest
       \/ RoundTrip
       \/ RoundTripError
       \/ RoundTripResponse
       \/ ServeError
       \/ Relay
       \/ CopyBody

\* SIGINT or SIGTERM arrives: waitForShutdown receives from stop.
Signal ==
    /\ main.pc = "serving"
    /\ main' = [main EXCEPT !.pc = "signalled"]
    /\ UNCHANGED <<cfg, handlers, sequentialVars>>

\* waitForShutdown calls srv.Shutdown with a context that ends after the
\* graceful-shutdown timeout; the server stops listening.
CallShutdown ==
    /\ main.pc = "signalled"
    /\ main' = [main EXCEPT !.pc = "shutdown", !.shutdowns = @ + 1]
    /\ UNCHANGED <<cfg, handlers, sequentialVars>>

\* Shutdown as it would return were it called with a context that never
\* ends: only when no request is being served.
ShutdownReturnsUnbounded ==
    /\ main.pc = "shutdown"
    /\ pc = "idle"
    /\ main' = [main EXCEPT !.pc = "returned"]
    /\ UNCHANGED <<cfg, handlers, sequentialVars>>

\* Shutdown returns: nil when no request is being served, and the error
\* of its context when the timeout is over, which can be at any moment.
\* With nil waitForShutdown returns; with an error it goes on to Close.
ShutdownReturns ==
    /\ main.pc = "shutdown"
    /\ \/ /\ pc = "idle"
          /\ main' = [main EXCEPT !.pc = "returned"]
       \/ main' = [main EXCEPT !.pc = "closing", !.shutdownErr = TRUE]
    /\ UNCHANGED <<cfg, handlers, sequentialVars>>

\* waitForShutdown calls srv.Close and returns; main returns with it and
\* the process ends.
ForcedClose ==
    /\ main.pc = "closing"
    /\ main' = [main EXCEPT !.pc = "returned", !.forced = @ + 1]
    /\ UNCHANGED <<cfg, handlers, sequentialVars>>

\* The steps main takes by itself.
MainStep ==
    \/ MainLoad
    \/ CallShutdown
    \/ ShutdownReturns
    \/ ForcedClose

MainNext ==
    \/ MainLoad
    \/ MainReceive
    \/ Serve
    \/ Signal
    \/ CallShutdown
    \/ ShutdownReturns
    \/ ForcedClose

MainSpec == MainInit /\ [][MainNext]_vars /\ WF_vars(MainStep)

(***************************************************************************)
(* The Signer alone: AttachSignature called on requests of every shape by  *)
(* signers of every shape, twice in a row so that two calls can be         *)
(* compared. No request is served meanwhile.                               *)
(***************************************************************************)

\* Keys and secrets: the signer of the configuration, and the signers
\* with another key, with another secret, without a key, without a secret.
Signers ==
    {NewSigner(<<"key-id">>, <<"secret-value">>),
     NewSigner(<<"key-2">>, <<"secret-value">>),
     NewSigner(<<"key-id">>, <<"secret-2">>),
     NewSigner(<<>>, <<"secret-value">>),
     NewSigner(<<"key-id">>, <<>>)}

\* The readings of a signer's clock: a second, the same second half a
\* second later, the next second.
Clocks ==
    {[sec |-> 1700000000, nsec |-> 0],
     [sec |-> 1700000000, nsec |-> 500000000],
     [sec |-> 1700000001, nsec |-> 0]}

\* The requests handed to AttachSignature: with and without a query, a
\* body, signature headers already there.
SignRequests ==
    [method : Methods,
     path   : {McpPath, <<"/", "v1", "/", "test">>},
     query  : Queries,
     header : {NoHeader,
               FromWire(<< <<"x-signature", <<"forged">> >>,
                           <<"x-signature", <<"forged-2">> >>,
                           <<"Content-Type", <<"application/json">> >> >>)},
     body   : ReqBodies]

\* A Signer and nothing else.
SignInit ==
    /\ Init
    /\ cfg = CHOOSE c \in Configs :
                c.APIKey # <<>> /\ c.APISecret # <<>>
                /\ c.SessionHeader = "x-session-id" /\ c.SessionValue # <<>>

\* One call of AttachSignature: the signer, the request and the clock
\* reading it found, the error it returned and the header it left.
Sign ==
    /\ Len(calls) < 2
    /\ \E s \in Signers, r \in SignRequests, now \in Clocks :
         LET out == AttachSignature(s, r, now) IN
         calls' = Append(calls, [s |-> s, req |-> r, now |-> now,
                                 err |-> out.err, header |-> out.header])
    /\ UNCHANGED <<cfg, pc, req, ctxDone, route, upstreamReq, outbound, resp,
                   followed, doErr, err, w, bodyReader, readErr, copyErr,
                   closes, tickPending, ticks, handlers, lateBeats,
                   main>>

SignNext == Sign

SignSpec == SignInit /\ [][SignNext]_vars

(***************************************************************************)
(* Claims                                                                  *)
(***************************************************************************)

\* The nine hop-by-hop header names, under their canonical keys.
HopByHopNames ==
    {CanonicalKey(n) : n \in
        {"Connection", "Proxy-Connection", "Keep-Alive", "Proxy-Authenticate",
         "Proxy-Authorization", "TE", "Trailer", "Transfer-Encoding", "Upgrade"}}

\* A request for which the outbound call was reached: the inbound body was
\* read and the request was signed.
ReachedUpstream ==
    /\ route = "forward"
    /\ err.kind \notin {"read request body", "sign request"}

\* C1: whatever the upstream outcome, a forwarded request has the outbound
\* transport invoked exactly once during ServeHTTP: never more than once
\* at any moment, and once when ServeHTTP returns.
C1_SingleAttempt ==
    /\ Len(outbound) <= 1
    /\ (pc = "done" /\ ReachedUpstream) => Len(outbound) = 1

\* The routing rule as the specification words it.
RoutingRule(r) ==
    IF r.method = "GET" /\ r.path \in {McpPath, McpPath \o <<"/">>}
    THEN "stream"
    ELSE IF r.method = "GET" /\ HasPrefix(r.path, DiscoveryPrefix)
    THEN "discovery"
    ELSE "forward"

\* C2: every request is handled by exactly one of the three paths, the one
\* the routing rule names, and ServeHTTP stands only in that path's code.
C2_Routing ==
    pc \notin {"idle", "serve"} =>
        /\ route = RoutingRule(req)
        /\ pc \in {"stream", "sse"} => route = "stream"
        /\ pc = "discovery" => route = "discovery"
        /\ pc \in {"forward", "do", "inflight", "failed", "relay", "copy"}
              => route = "forward"
        /\ route # "forward" =>
              /\ upstreamReq = NoUpstreamRequest
              /\ resp = NoResponse
              /\ err = NoError
        /\ route # "stream" => w.flushes = 0 /\ ticks = 0

\* C2's case: GET /mcp// has been forwarded.
C2_Witness ==
    /\ pc = "done"
    /\ req.method = "GET"
    /\ req.path = McpPath \o <<"/", "/">>
    /\ route = "forward"
    /\ Len(outbound) >= 1

\* A GET request to the canonical streaming path or to a discovery-probe
\* path.
ShortcutRequest(r) ==
    /\ r.method = "GET"
    /\ \/ r.path \in {McpPath, McpPath \o <<"/">>}
       \/ HasPrefix(r.path, DiscoveryPrefix)

\* C3: while a shortcut request is handled the transport is never invoked
\* and no outbound request exists, also after the context is cancelled.
C3_ShortcutIsolation ==
    ShortcutRequest(req) =>
        /\ Len(outbound) = 0
        /\ upstreamReq = NoUpstreamRequest
        /\ pc \notin {"do", "inflight"}

\* C3's case: an event stream that sent a heartbeat and was then cancelled
\* has ended.
C3_Witness ==
    /\ pc = "done"
    /\ ShortcutRequest(req)
    /\ route = "stream"
    /\ ctxDone
    /\ w.flushes >= 2
    /\ Len(outbound) = 0

\* What C4 promises for a request: 404 and no outbound request built or
\* sent.
AnsweredNotFoundLocally ==
    /\ Len(outbound) = 0
    /\ upstreamReq = NoUpstreamRequest
    /\ w.status \in {0, StatusNotFound}
    /\ pc = "done" => w.status = StatusNotFound

\* C4 as claimed: a request of any method whose path begins with the
\* discovery-probe prefix is answered 404 without an outbound request.
C4_AnyMethod ==
    (pc \notin {"idle", "serve"} /\ HasPrefix(req.path, DiscoveryPrefix))
        => AnsweredNotFoundLocally

\* C4, amended: a GET request whose path begins with the discovery-probe
\* prefix is answered 404 without an outbound request.
C4_GetOnly ==
    (pc \notin {"idle", "serve"} /\ req.method = "GET"
        /\ HasPrefix(req.path, DiscoveryPrefix))
        => AnsweredNotFoundLocally

\* C4's case: GET /.well-known/oauth-authorization-server/foo was answered.
C4_Witness ==
    /\ pc = "done"
    /\ req.method = "GET"
    /\ req.path = DiscoveryPrefix \o <<"/", "foo">>
    /\ w.status = StatusNotFound
    /\ Len(outbound) = 0

\* Something was written to the client: a header, a status line or a byte.
Written == w.header # NoHeader \/ w.status # 0 \/ w.body # <<>>

\* C5: on the forwarding path nothing is written to the client while an
\* outbound call is still to come or in flight: a write finds
\* forwardRequest returned, with a response or an error.
C5_NoWriteBeforeOutcome ==
    (route = "forward" /\ Written) =>
        /\ pc \in {"copy", "done"}
        /\ resp # NoResponse \/ err # NoError
        /\ Len(outbound) > 0 => (resp # NoResponse \/ doErr # NoDoError)

\* C5's case: the status line of an upstream response has been written
\* after the one outbound call returned.
C5_Witness ==
    /\ route = "forward"
    /\ pc = "copy"
    /\ Len(outbound) = 1
    /\ resp.status = StatusOK
    /\ w.status = StatusOK

\* C6: a failed outbound call is answered 504 when the error is a
\* cancelled context, an exceeded deadline or a timeout, and 502 otherwise;
\* the body is the status text (and the newline http.Error ends it with),
\* the headers are http.Error's own and nothing of an upstream response is
\* relayed.
C6_TransportFailure ==
    (pc = "done" /\ doErr # NoDoError) =>
        LET status ==
              IF \/ doErr.is \in {"context.Canceled", "context.DeadlineExceeded"}
                 \/ doErr.timeout
              THEN 504 ELSE 502
        IN /\ w.status = status
           /\ w.body = Bytes(StatusText(status) \o <<"\n">>)
           /\ StatusText(status) # <<>>
           /\ DOMAIN w.sent = {"Content-Type", "X-Content-Type-Options"}
           /\ resp = NoResponse
           /\ closes = 0

\* C6's case: the outbound call timed out in the transport, without the
\* context being done, and the client was answered 504.
C6_Witness ==
    /\ pc = "done"
    /\ doErr = ErrClientTimeout
    /\ ~ctxDone
    /\ w.status = 504

\* C7: an upstream response with status >= 400 and a body of at most
\* 64 KiB reaches the client with its status and, when reading it and
\* writing it did not fail, with exactly its body bytes.
C7_ErrorBodyFidelity ==
    (pc = "done" /\ resp.status >= 400 /\ BLen(resp.body) <= 65536) =>
        /\ w.status = resp.status
        /\ (~readErr /\ ~copyErr) => w.body = resp.body

\* C7's case: an error body of exactly 64 KiB was relayed.
C7_Witness ==
    /\ pc = "done"
    /\ resp.status = 500
    /\ BLen(resp.body) = 65536
    /\ ~readErr /\ ~copyErr
    /\ w.body = resp.body

\* The headers of a response without the hop-by-hop ones.
WithoutHopByHop(h) == [k \in DOMAIN h \ HopByHopNames |-> h[k]]

\* C8: an upstream response with status >= 400 is passed through with its
\* status, its headers minus the hop-by-hop set and its body in full,
\* whatever the length of the body.
C8_ErrorPassThrough ==
    (pc = "done" /\ resp.status >= 400 /\ ~readErr /\ ~copyErr) =>
        /\ w.status = resp.status
        /\ w.sent = WithoutHopByHop(resp.header)
        /\ w.body = resp.body

\* C9: every upstream response with status < 400, a 3xx included, reaches
\* the client with its status, and with its body when the copy did not
\* fail.
C9_SuccessPassThrough ==
    (pc = "done" /\ route = "forward") =>
        /\ \A i \in DOMAIN followed :
              followed[i] < 400 => w.status = followed[i]
        /\ (resp.status > 0 /\ resp.status < 400) =>
              /\ w.status = resp.status
              /\ ~copyErr => w.body = resp.body

\* C10: no hop-by-hop header name is in an outbound request as sent or in
\* the response headers relayed to the client of a forwarded request.
C10_HopByHopExclusion ==
    /\ \A i \in DOMAIN outbound :
          \A k \in DOMAIN outbound[i].header : CanonicalKey(k) \notin HopByHopNames
    /\ route = "forward" =>
          \A k \in DOMAIN w.sent : CanonicalKey(k) \notin HopByHopNames

\* C11: every request the transport is invoked with for a forwarded
\* request has the inbound request's method, its body bytes and its path.
C11_OutboundMirrorsInbound ==
    \A i \in DOMAIN outbound :
        /\ outbound[i].method = req.method
        /\ outbound[i].body = req.body
        /\ outbound[i].path = req.path

\* The canonical keys of the three signature headers.
SignatureHeaderNames == {"X-Api-Key-Id", "X-Signature", "X-Timestamp"}

\* C12: a call of AttachSignature with a key and a secret returns no error
\* and leaves the request's header as it was but for three names:
\* x-api-key-id holds the key, x-timestamp the clock reading printed to the
\* second, x-signature the HMAC under the secret of method, newline, path,
\* newline, that timestamp; two calls that differ only in query and body
\* give the same signature.
C12_AttachSignature ==
    /\ \A i \in DOMAIN calls :
          LET c == calls[i] IN
          (c.s.Key # <<>> /\ c.s.Secret # <<>>) =>
             LET ts == FormatRFC3339([sec |-> c.now.sec, nsec |-> 0]) IN
             /\ ~c.err
             /\ DOMAIN c.header = DOMAIN c.req.header \cup SignatureHeaderNames
             /\ \A k \in DOMAIN c.req.header \ SignatureHeaderNames :
                   c.header[k] = c.req.header[k]
             /\ c.header["X-Api-Key-Id"] = <<c.s.Key>>
             /\ c.header["X-Timestamp"] = <<ts>>
             /\ Len(ts) = 2 /\ ts[2] = "Z"
             /\ c.header["X-Signature"] =
                   <<HmacHex(c.s.Secret,
                             <<c.req.method, "\n">> \o c.req.path \o <<"\n">> \o ts)>>
    /\ \A i, j \in DOMAIN calls :
          (/\ ~calls[i].err /\ ~calls[j].err
           /\ calls[i].s = calls[j].s
           /\ calls[i].now = calls[j].now
           /\ calls[i].req.method = calls[j].req.method
           /\ calls[i].req.path = calls[j].req.path)
          => calls[i].header["X-Signature"] = calls[j].header["X-Signature"]

\* C12's case: a request with a query, a body and forged signature values
\* was signed half a second into a second, after the same request without
\* query and body.
C12_Witness ==
    /\ Len(calls) = 2
    /\ ~calls[1].err /\ ~calls[2].err
    /\ calls[1].req.query = <<>> /\ calls[1].req.body = <<>>
    /\ calls[2].req.query # <<>> /\ calls[2].req.body # <<>>
    /\ calls[2].now.nsec > 0
    /\ "X-Signature" \in DOMAIN calls[2].req.header
    /\ calls[2].header["X-Signature"] # calls[2].req.header["X-Signature"]

\* The five inputs of a signature: key, secret, method, path and the
\* timestamp as printed.
SignInputs(c) ==
    [key |-> c.s.Key, secret |-> c.s.Secret, method |-> c.req.method,
     path |-> c.req.path, timestamp |-> FormatRFC3339(c.now)]

\* The names of the inputs in which two calls differ.
Differing(a, b) ==
    {n \in {"key", "secret", "method", "path", "timestamp"} :
        SignInputs(a)[n] # SignInputs(b)[n]}

\* The values of the three signature headers after a call.
SignatureHeaders(c) == [k \in SignatureHeaderNames |-> c.header[k]]

\* Two successful calls of AttachSignature have been made.
TwoSigned == Len(calls) = 2 /\ ~calls[1].err /\ ~calls[2].err

\* C13 as claimed: two calls with the same five inputs give the same three
\* header values, and two calls that differ in exactly one of the five
\* inputs give different x-signature values.
C13_AnyInputChangesSignature ==
    TwoSigned =>
        /\ Differing(calls[1], calls[2]) = {} =>
              SignatureHeaders(calls[1]) = SignatureHeaders(calls[2])
        /\ Cardinality(Differing(calls[1], calls[2])) = 1 =>
              calls[1].header["X-Signature"] # calls[2].header["X-Signature"]

\* C13, amended: two calls with the same five inputs give the same three
\* header values; two calls that differ in exactly one of secret, method,
\* path and timestamp give different x-signature values; two calls that
\* differ only in the key give the same x-signature and different
\* x-api-key-id values.
C13_Determinism ==
    TwoSigned =>
        /\ Differing(calls[1], calls[2]) = {} =>
              SignatureHeaders(calls[1]) = SignatureHeaders(calls[2])
        /\ (/\ Cardinality(Differing(calls[1], calls[2])) = 1
            /\ Differing(calls[1], calls[2]) # {"key"}) =>
              calls[1].header["X-Signature"] # calls[2].header["X-Signature"]
        /\ Differing(calls[1], calls[2]) = {"key"} =>
              /\ calls[1].header["X-Signature"] = calls[2].header["X-Signature"]
              /\ calls[1].header["X-Api-Key-Id"] # calls[2].header["X-Api-Key-Id"]

\* C13's case: two successful calls that differ only in the method.
C13_Witness ==
    /\ TwoSigned
    /\ Differing(calls[1], calls[2]) = {"method"}
    /\ calls[1].header["X-Signature"] # calls[2].header["X-Signature"]

\* The signer of the Proxy has no key or no secret.
SignerUnset == cfg.APIKey = <<>> \/ cfg.APISecret = <<>>

\* C14: with a signer that lacks key or secret every forwarded request
\* whose body was read fails in signing; the request AttachSignature
\* failed on has the headers it had before, the transport is never
\* invoked, the client is answered 502, and ServeHTTP returns so that the
\* next request is received.
C14_SigningFailure ==
    /\ (SignerUnset /\ route = "forward" /\ pc # "forward") =>
          err.kind \in {"sign request", "read request body"}
    /\ err.kind = "sign request" =>
          /\ SignerUnset
          /\ upstreamReq = BuildUpstreamRequest(cfg, req)
          /\ DOMAIN upstreamReq.header \cap SignatureHeaderNames
                = DOMAIN req.header \cap SignatureHeaderNames
          /\ Len(outbound) = 0
          /\ resp = NoResponse
          /\ pc \in {"failed", "done"}
          /\ pc = "done" => (w.status = StatusBadGateway /\ ENABLED Return)
    /\ pc = "idle" => ENABLED Receive

\* C14's case: a request could not be signed for want of a secret and was
\* answered 502.
C14_Witness ==
    /\ pc = "done"
    /\ err.kind = "sign request"
    /\ cfg.APIKey # <<>> /\ cfg.APISecret = <<>>
    /\ w.status = 502
    /\ Len(outbound) = 0

\* C15: when reading the inbound body fails no outbound request is built
\* or sent and the client is answered with a 5xx status.
C15_BodyReadFailure ==
    err.kind = "read request body" =>
        /\ upstreamReq = NoUpstreamRequest
        /\ Len(outbound) = 0
        /\ resp = NoResponse
        /\ pc \in {"failed", "done"}
        /\ pc = "done" => (w.status >= 500 /\ w.status <= 599)

\* C15's case: the body of a POST could not be read and the client was
\* answered.
C15_Witness ==
    /\ pc = "done"
    /\ req.method = "POST"
    /\ err.kind = "read request body"
    /\ w.status = 502

\* The values a header map holds under a name: none when it is absent.
ValuesOf(h, name) ==
    IF CanonicalKey(name) \in DOMAIN h THEN h[CanonicalKey(name)] ELSE <<>>

\* What C16 says of one outbound request.
SessionHeaderRule(out) ==
    IF cfg.SessionValue # <<>>
    THEN ValuesOf(out.header, cfg.SessionHeader) = <<cfg.SessionValue>>
    ELSE ValuesOf(out.header, cfg.SessionHeader)
            = ValuesOf(req.header, cfg.SessionHeader)

\* C16 as claimed: every outbound request carries the configured session
\* value as the only value of the session header, and the client's values
\* when no session value is configured, whatever the header's name.
C16_SessionHeader ==
    \A i \in DOMAIN outbound : SessionHeaderRule(outbound[i])

\* The header names the proxy writes or removes itself on every outbound
\* request.
ProxyOwnedNames ==
    HopByHopNames \cup SignatureHeaderNames
    \cup {"X-Forwarded-For", "X-Forwarded-Proto", "X-Forwarded-Host"}

\* C16, amended: the same for a session header that is not named like a
\* signature header, and, when no session value is configured, not like
\* any header the proxy writes or removes itself.
C16_SessionHeaderOwnName ==
    \A i \in DOMAIN outbound :
        (IF cfg.SessionValue # <<>>
         THEN CanonicalKey(cfg.SessionHeader) \notin SignatureHeaderNames
         ELSE CanonicalKey(cfg.SessionHeader) \notin ProxyOwnedNames)
        => SessionHeaderRule(outbound[i])

\* C16's case: the client sent a session id of its own and the outbound
\* request carries the configured one alone.
C16_Witness ==
    /\ Len(outbound) >= 1
    /\ cfg.SessionHeader = "x-session-id"
    /\ cfg.SessionValue = <<"session-123">>
    /\ ValuesOf(req.header, "x-session-id") = << <<"client">> >>
    /\ ValuesOf(outbound[1].header, "x-session-id") = << <<"session-123">> >>

\* The body of an event stream after k heartbeats.
RECURSIVE StreamBody(_)
StreamBody(k) ==
    IF k = 0 THEN Bytes(OkComment)
    ELSE Concat(StreamBody(k - 1), Bytes(KeepaliveComment))

\* An event stream in Open or after: status 200 under the three headers,
\* ":ok" and a flush, then one ":keepalive" and one flush for each tick the
\* loop took, and nothing else.
StreamShape ==
    (route = "stream" /\ w.flusher /\ pc \in {"sse", "done"}) =>
        /\ w.status = StatusOK
        /\ w.sent = [k \in {"Content-Type", "Cache-Control", "Connection"} |->
                        CASE k = "Content-Type" -> << <<"text/event-stream">> >>
                          [] k = "Cache-Control" -> << <<"no-cache">> >>
                          [] k = "Connection" -> << <<"keep-alive">> >>]
        /\ \/ pc = "done" /\ w.body = <<>> /\ w.flushes = 0 /\ ticks = 0
           \/ \E k \in 0..ticks :
                 /\ w.body = StreamBody(k)
                 /\ w.flushes = k + 1
                 /\ pc = "sse" => k = ticks - (IF tickPending THEN 1 ELSE 0)

\* C17: the event stream always has that shape; its body grows only by
\* ":ok" on entry and in the loop by taking a tick; and no step writes
\* once the responder has returned.
C17_StreamSequence ==
    /\ []StreamShape
    /\ [][(route = "stream" /\ w.flusher /\ w'.body # w.body /\ pc' # "idle") =>
             \/ pc = "stream" /\ w.body = <<>> /\ w'.body = Bytes(OkComment)
             \/ pc = "sse" /\ tickPending /\ ~tickPending']_vars
    /\ [][(route = "stream" /\ pc = "done") => (w' = w \/ pc' = "idle")]_vars

\* C17's case: an open stream has sent two heartbeats for two ticks.
C17_Witness ==
    /\ pc = "sse"
    /\ ticks = 2
    /\ ~tickPending
    /\ w.body = StreamBody(2)
    /\ w.flushes = 3

\* C18: once the context is done the open event stream writes nothing
\* more, whichever way the tick and the cancellation interleave.
C18_NoHeartbeatAfterCancel ==
    [][(pc = "sse" /\ ctxDone) => w' = w]_vars

\* C19: an event stream that entered Open ends only when the context is
\* done.
C19_OnlyCancellationEnds ==
    (route = "stream" /\ pc = "done" /\ w.flushes >= 1) => ctxDone

\* C20: with a writer that is no Flusher the responder answers 500 with
\* http.Error's headers and text and nothing else happens: no event-stream
\* header, no comment line, no flush, no tick, no outbound request.
C20_NoFlusher ==
    (route = "stream" /\ ~w.flusher) =>
        /\ pc \in {"stream", "done"}
        /\ ticks = 0 /\ ~tickPending
        /\ w.flushes = 0
        /\ Len(outbound) = 0 /\ upstreamReq = NoUpstreamRequest
        /\ w.status \in {0, StatusInternalServerError}
        /\ DOMAIN w.header \cap {"Cache-Control", "Connection"} = {}
        /\ ValuesOf(w.header, "Content-Type")
              \in {<<>>, << <<"text/plain; charset=utf-8">> >>}
        /\ pc = "done" =>
              /\ w.status = StatusInternalServerError
              /\ w.body = Bytes(StreamingUnsupported \o <<"\n">>)
              /\ w.sent = w.header

\* C20's case: GET /mcp/ on a writer without a Flusher was answered 500.
C20_Witness ==
    /\ pc = "done"
    /\ route = "stream"
    /\ req.path = McpPath \o <<"/">>
    /\ ~w.flusher
    /\ w.status = 500


HasDotSegment(path) == \E i \in 1..Len(path) : path[i] \in {".", ".."}

\* C22: the first outbound request goes to the base's scheme and host with
\* the inbound query unchanged; its path is the inbound path when that has
\* no dot segment, and otherwise an absolute path without dot segments; the
\* base's path prefix is never put in front of it.
C22_JoiningURL ==
    Len(outbound) >= 1 =>
        /\ outbound[1].scheme = cfg.Upstream.scheme
        /\ outbound[1].host = cfg.Upstream.host
        /\ outbound[1].query = req.query
        /\ ~HasDotSegment(req.path) => outbound[1].path = req.path
        /\ ~HasDotSegment(outbound[1].path)
        /\ HasPrefix(outbound[1].path, <<"/">>)
        /\ HasPrefix(outbound[1].path, cfg.Upstream.path)
             => HasPrefix(req.path, cfg.Upstream.path)

\* C22: the first outbound request has the inbound path and query, whatever
\* the inbound path is.
C22_PathUnchanged ==
    Len(outbound) >= 1 =>
        /\ outbound[1].scheme = cfg.Upstream.scheme
        /\ outbound[1].host = cfg.Upstream.host
        /\ outbound[1].query = req.query
        /\ outbound[1].path = req.path

\* C22: a request to /mcp with a query string went out to the base with
\* the path prefix /root as /mcp with that query string.
C22_Witness ==
    /\ Len(outbound) >= 1
    /\ cfg.Upstream.path = <<"/", "root">>
    /\ req.path = McpPath
    /\ req.query = <<"foo=bar">>
    /\ outbound[1].path = McpPath
    /\ outbound[1].query = <<"foo=bar">>

\* The values joined into one, comma-separated.
RECURSIVE JoinComma(_)
JoinComma(values) ==
    IF values = <<>> THEN <<>>
    ELSE IF Len(values) = 1 THEN values[1]
    ELSE values[1] \o <<", ">> \o JoinComma(Tail(values))

\* C23: on every outbound request X-Forwarded-For has one value: all the
\* values the client sent under that name, in order, and then the host of
\* the client's address, comma-separated.
C23_ForwardedForKeepsAll ==
    \A i \in DOMAIN outbound :
        ValuesOf(outbound[i].header, "X-Forwarded-For")
          = << JoinComma(ValuesOf(req.header, "X-Forwarded-For")
                         \o <<SplitHostPort(req.remoteAddr).host>>) >>

\* The names the proxy sets itself on the request forwardRequest builds:
\* the forwarded headers, the signature headers, and the session header
\* when a session value is configured.
ProxySetNames ==
    SignatureHeaderNames
    \cup {"X-Forwarded-For", "X-Forwarded-Proto", "X-Forwarded-Host"}
    \cup (IF cfg.SessionValue # <<>> THEN {CanonicalKey(cfg.SessionHeader)}
          ELSE {})

\* C24: once a response is relayed, the client has under every name of the
\* upstream response that is not hop-by-hop the very values of the upstream,
\* in their order; and the request forwardRequest built has under every
\* inbound name that is neither hop-by-hop nor set by the proxy the very
\* values of the inbound request.
C24_CopyNeverOverwrites ==
    /\ (pc \in {"copy", "done"} /\ resp # NoResponse) =>
          \A k \in DOMAIN resp.header \ HopByHopNames :
              ValuesOf(w.sent, k) = resp.header[k]
    /\ Len(outbound) >= 1 =>
          \A k \in DOMAIN req.header \ (HopByHopNames \cup ProxySetNames) :
              ValuesOf(outbound[1].header, k) = req.header[k]

\* C24: a request with two Accept values went out with both, and the two
\* Set-Cookie values of the response reached the client in their order.
C24_Witness ==
    /\ pc = "done"
    /\ Len(outbound) >= 1
    /\ ValuesOf(req.header, "Accept")
         = << <<"application/json">>, <<"text/event-stream">> >>
    /\ ValuesOf(outbound[1].header, "Accept") = ValuesOf(req.header, "Accept")
    /\ ValuesOf(resp.header, "Set-Cookie") = << <<"a=1">>, <<"b=2">> >>
    /\ ValuesOf(w.sent, "Set-Cookie") = << <<"a=1">>, <<"b=2">> >>

\* C25: on every path of ServeHTTP the headers the client got are all the
\* headers the handler has set (none was set after the status line), no
\* body byte is written without a status line, and once the status line is
\* written neither it nor the header changes while the body may grow.
C25_HeaderStatusBody ==
    /\ [](/\ w.status # 0 => w.header = w.sent
          /\ w.status = 0 => w.body = <<>> /\ w.sent = NoHeader)
    /\ [][(w.status # 0 /\ pc' # "idle") =>
             /\ w'.header = w.header
             /\ w'.sent = w.sent
             /\ w'.status = w.status]_vars

\* C25: a forwarded request was answered with the upstream's headers, its
\* status and a body.
C25_Witness ==
    /\ pc = "done"
    /\ route = "forward"
    /\ resp.status = StatusOK
    /\ w.status = StatusOK
    /\ "Set-Cookie" \in DOMAIN w.sent
    /\ w.body # <<>>

\* What C26 says of the ServeHTTP call h: its outbound request is the one
\* built and signed from the Proxy's configuration and its own request, and
\* what it wrote is the answer to the way its own call ended.
OwnOutcome(h) ==
    /\ h.pc = "inflight" \/ (h.pc = "done" /\ h.out # NoUpstreamRequest) =>
          \E now \in Times :
              LET built == BuildUpstreamRequest(cfg, h.req) IN
              h.out = [built EXCEPT !.header =
                          AttachSignature(NewSigner(cfg.APIKey, cfg.APISecret),
                                          built, now).header]
    /\ h.pc = "done" => h.w = ConcAnswer(h.outcome)
    /\ h.pc # "done" => h.w = NewWriter(TRUE)

\* C26: no step of any ServeHTTP call changes the Proxy; a step of one call
\* leaves every other call as it was; and in every interleaving the
\* outbound request and the answer of a call are those of its own request
\* and of the way its own outbound call ended, so that two calls with the
\* same request and the same ending have the same outbound request and
\* answer, whatever happened to the other one.
C26_Independence ==
    /\ [](\A i \in 1..NumHandlers : OwnOutcome(handlers[i]))
    /\ [](\A i, j \in 1..NumHandlers :
            (/\ handlers[i].pc = "done"
             /\ handlers[j].pc = "done"
             /\ handlers[i].req = handlers[j].req
             /\ handlers[i].outcome = handlers[j].outcome)
            => /\ handlers[i].out = handlers[j].out
               /\ handlers[i].w = handlers[j].w)
    /\ [][cfg' = cfg]_vars
    /\ [][\A i, j \in 1..NumHandlers :
            (i # j /\ handlers'[i] # handlers[i])
                => handlers'[j] = handlers[j]]_vars

\* C26: one call failed with a refused connection and was answered 502
\* while the other, side by side, relayed its response with status 200.
C26_Witness ==
    \E i, j \in 1..NumHandlers :
        /\ i # j
        /\ handlers[i].pc = "done"
        /\ handlers[i].outcome.err.kind = "perform upstream request"
        /\ handlers[i].w.status = StatusBadGateway
        /\ handlers[j].pc = "done"
        /\ handlers[j].outcome.resp.status = StatusOK
        /\ handlers[j].w.status = StatusOK
        /\ handlers[j].w.body = Bytes(<<"u", "p">>)

\* C27: a request to /mcp with another method than GET is routed to
\* forwardRequest, the event-stream responder writes nothing for it, and
\* its outbound call is made once: never more than once, and once when
\* ServeHTTP returns after the request was read and signed.
C27_PostMcpForwardedOnce ==
    (req.method # "GET" /\ req.path = McpPath /\ pc \notin {"idle", "serve"})
        => /\ route = "forward"
           /\ pc # "sse"
           /\ ticks = 0
           /\ Len(outbound) <= 1
           /\ (pc = "done" /\ ReachedUpstream) => Len(outbound) = 1

\* C27, the routing alone: a request to /mcp with another method than GET
\* is routed to forwardRequest and never to the event-stream responder.
C27_PostMcpForwarded ==
    (req.method # "GET" /\ req.path = McpPath /\ pc \notin {"idle", "serve"})
        => /\ route = "forward"
           /\ pc # "sse"
           /\ ticks = 0

\* C28: every outbound request has exactly one value under each of the
\* three signature headers: the key, the timestamp and the HMAC that
\* AttachSignature computed for the request forwardRequest built, whatever
\* the client sent under these names and whatever the session header is
\* called.
C28_SignatureFromSigner ==
    \A i \in DOMAIN outbound :
        \E now \in Times :
            LET timestamp == FormatRFC3339(now) IN
            /\ ValuesOf(outbound[i].header, HeaderAPIKey) = <<cfg.APIKey>>
            /\ ValuesOf(outbound[i].header, HeaderTimestamp) = <<timestamp>>
            /\ ValuesOf(outbound[i].header, HeaderSignature)
                 = << HmacHex(cfg.APISecret,
                              SigningPayload(outbound[1].method,
                                             outbound[1].path, timestamp)) >>

\* C28: a request with a forged x-signature went through a Proxy whose
\* session header is named x-signature, and was sent with the signer's
\* signature alone.
C28_Witness ==
    /\ Len(outbound) >= 1
    /\ cfg.SessionHeader = "x-signature"
    /\ cfg.SessionValue # <<>>
    /\ ValuesOf(req.header, HeaderSignature) = << <<"forged">> >>
    /\ Len(ValuesOf(outbound[1].header, HeaderSignature)) = 1
    /\ ValuesOf(outbound[1].header, HeaderSignature)[1] # <<"forged">>
    /\ ValuesOf(outbound[1].header, HeaderSignature)[1] # cfg.SessionValue

\* What a verifier recomputes from a request it received: the HMAC under
\* the secret of the received method, path and x-timestamp.
Recomputed(out) ==
    HmacHex(cfg.APISecret,
            SigningPayload(out.method, out.path,
                           HeaderGet(out.header, HeaderTimestamp)))

\* C29: for every request sent, the HMAC recomputed from its method, its
\* path and its x-timestamp is its x-signature.
C29_VerifierRecomputes ==
    \A i \in DOMAIN outbound :
        ValuesOf(outbound[i].header, HeaderSignature)
            = <<Recomputed(outbound[i])>>

\* C29, for the request forwardRequest built and signed: the HMAC
\* recomputed from its method, path and x-timestamp is its x-signature.
C29_FirstRequestVerifies ==
    Len(outbound) >= 1 =>
        ValuesOf(outbound[1].header, HeaderSignature)
            = <<Recomputed(outbound[1])>>

\* C30: in a request at most one ':keepalive' is written after its context
\* was done.
C30_AtMostOneLateHeartbeat == lateBeats <= 1

\* The status ServeHTTP has to answer with when it returns: on the
\* forwarding path the status of the classified error or else the status
\* of the upstream response, on the event-stream path 500 without a
\* Flusher and 200 with one, on the discovery path 404.
StatusOfPath ==
    CASE route = "forward" ->
           IF err # NoError THEN ErrorStatus(err) ELSE resp.status
      [] route = "stream" ->
           IF w.flusher THEN StatusOK ELSE StatusInternalServerError
      [] route = "discovery" -> StatusNotFound
      [] OTHER -> 0

C32_BodyClosedOnce ==
    /\ closes <= 1
    /\ closes = 1 => (pc = "done" /\ resp # NoResponse)
    /\ (pc = "done" /\ resp # NoResponse) => closes = 1
    /\ (pc = "done" /\ resp = NoResponse) =>
          /\ closes = 0
          /\ bodyReader = NoReader
          /\ ~readErr

\* C32: the read of an upstream error body failed, and ServeHTTP returned
\* with the body closed once.
C32_Witness ==
    /\ pc = "done"
    /\ resp.status >= StatusBadRequest
    /\ readErr
    /\ copyErr
    /\ closes = 1

\* A response with a Content-Length was relayed to the end: the read of
\* an error body and the copy to the client both went well.
RelayedWithLength ==
    /\ pc = "done"
    /\ resp # NoResponse
    /\ "Content-Length" \in DOMAIN resp.header
    /\ ~readErr
    /\ ~copyErr

\* C33: the Content-Length relayed to the client is the number of body
\* bytes written to the client, whatever the status and the length of the
\* body.
C33_ContentLengthIsWritten ==
    RelayedWithLength =>
        ValuesOf(w.sent, "Content-Length") = <<Itoa(BLen(w.body))>>

\* C33, for the bodies that are not cut: with a status below 400, or a
\* body of at most 64 KiB, the Content-Length relayed is the number of
\* body bytes written.
C33_ContentLengthWithinCap ==
    (RelayedWithLength
       /\ (resp.status < StatusBadRequest \/ BLen(resp.body) <= maxLogBody))
        => ValuesOf(w.sent, "Content-Length") = <<Itoa(BLen(w.body))>>

\* C34: while main goes on past Load, the upstream URL of its environment
\* is set and absolute and the key and the secret are not empty once
\* trimmed, and the Proxy holds the trimmed values; and then no request
\* ever fails with the error of a signer without key or secret.
C34_LoadedConfigSigns ==
    main.pc \notin {"start", "fatal"} =>
        /\ TrimSpace(main.env.upstream) # <<>>
        /\ ~ParseURL(TrimSpace(main.env.upstream)).err
        /\ ParseURL(TrimSpace(main.env.upstream)).url.scheme # ""
        /\ TrimSpace(main.env.key) # <<>>
        /\ TrimSpace(main.env.secret) # <<>>
        /\ cfg.APIKey = TrimSpace(main.env.key)
        /\ cfg.APISecret = TrimSpace(main.env.secret)
        /\ err.kind # "sign request"
        /\ \A i \in DOMAIN outbound :
              ValuesOf(outbound[i].header, HeaderAPIKey) = <<cfg.APIKey>>

\* C34: a key set with blanks around it was loaded, and a request went out
\* signed under the trimmed key.
C34_Witness ==
    /\ main.pc = "serving"
    /\ main.env.key = <<" ", "key-id", " ">>
    /\ Len(outbound) >= 1
    /\ ValuesOf(outbound[1].header, HeaderAPIKey) = << <<"key-id">> >>
    /\ pc = "done"
    /\ err = NoError

\* C35: once the signal is received waitForShutdown returns sooner or
\* later; Shutdown is called once and before Close; Close is called at
\* most once, and only after Shutdown returned an error.
C35_ShutdownReturns ==
    /\ (main.pc = "signalled") ~> (main.pc = "returned")
    /\ [](main.pc \notin {"none", "start", "fatal"} =>
            /\ main.shutdowns <= 1
            /\ main.forced <= main.shutdowns
            /\ main.forced = 1 => main.shutdownErr
            /\ main.pc = "returned" =>
                  /\ main.shutdowns = 1
                  /\ main.forced = 1 <=> main.shutdownErr)

\* C35: the timeout of Shutdown was over while an event stream was open,
\* Close was called and waitForShutdown returned.
C35_Witness ==
    /\ main.pc = "returned"
    /\ main.shutdownErr
    /\ main.forced = 1
    /\ pc = "sse"

====
